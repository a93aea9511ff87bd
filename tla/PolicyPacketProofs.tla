------------------------- MODULE PolicyPacketProofs -------------------------
(***************************************************************************)
(* The invariant behind the theorems of PolicyProofs, and the steps of the *)
(* packets: a packet that is on its way, and a conntrack entry of the      *)
(* current epoch, keep what the rules granted them.                        *)
(*                                                                         *)
(* The verdict is compared with what the stores remember (installed and    *)
(* joined), which changes only together with a bump.  The tables agree     *)
(* with the memory (Nearly) except between the first write of a pass and   *)
(* its bump.  The heart of the argument is that within one epoch the       *)
(* tables do not come back to the memory once they have left it: then a    *)
(* packet that read its epoch and its tables one by one, and finds them in *)
(* agreement at the end, has read them in agreement all along.             *)
(***************************************************************************)
EXTENDS PolicyPlane, TLAPS

(* A failing bump, or a failing meta write, leaves tables that the memory  *)
(* does not know of, and a later replay of the former content hides them   *)
(* without a bump (invalidator.applied).                                   *)
Bumping == Faults \cap {"meta", "bump"} = {}

(* When an interface's entry is to be written, no other interface is on    *)
(* record with that address: MembershipStore does not ask whose entry it   *)
(* overwrites or deletes.                                                  *)
InTurn ==
    worker["nic"].pc = "write" =>
        \A o \in Nics \ {worker["nic"].key} :
            joined[o] = None \/ joined[o].addr # worker["nic"].entry.addr

(***************************************************************************)
(* The verdict by what the stores remember.                                *)
(***************************************************************************)
TargetMeta(r) == IF installed[r] = None THEN None ELSE MetaOf(installed[r])

TargetGroups(a) ==
    IF \E o \in Nics : joined[o] # None /\ joined[o].addr = a
    THEN joined[CHOOSE o \in Nics : joined[o] # None /\ joined[o].addr = a].groups
    ELSE <<>>

AclGrants(h, p) ==
    AclOf[SelfOf(h, p)] # None =>
        acl_evaluate(TargetMeta(AclOf[SelfOf(h, p)]), installed[AclOf[SelfOf(h, p)]], h, p) # "deny"

Declaring(h, p) == {g \in RangeOf(TargetGroups(SelfOf(h, p))) : sg_declared(TargetMeta(g), h)}

GroupGrants(g, h, p) ==
    sg_eval_one_sg(TargetMeta(g), installed[g], h, p, RangeOf(TargetGroups(PeerOf(h, p))))

GroupsGrant(h, p) ==
    TargetGroups(SelfOf(h, p)) # <<>> =>
        \/ \E g \in Declaring(h, p) : GroupGrants(g, h, p)
        \/ sg_default(Declaring(h, p) # {}, h) = "pass"

Granted(h, p) == SelfOf(h, p) \in Local /\ AclGrants(h, p) /\ GroupsGrant(h, p)

(* The tables agree with the memory, but for inner maps that are gone: a   *)
(* missing inner map only denies.                                          *)
Nearly ==
    /\ \A r \in Policies : rules[r] \in {installed[r], None} /\ meta[r] = TargetMeta(r)
    /\ \A a \in Addrs : members[a] = TargetGroups(a)

(***************************************************************************)
(* The writers.                                                            *)
(***************************************************************************)
PolicyKinds == {"sg", "acl"}

Applying(w, k) ==
    /\ w.pc \in {"rules", "meta", "bump"} /\ w.key \in KeysOf(k) /\ w.rs # None
    /\ w = [pc |-> w.pc, key |-> w.key, rs |-> w.rs]

Deleting(w, k) ==
    /\ w.pc \in {"delrules", "delmeta", "delbump"} /\ w.key \in KeysOf(k)
    /\ w = [pc |-> w.pc, key |-> w.key]

Entry(e) == e # None /\ e.addr \in Addrs /\ e.groups \in Seq(Groups) /\ e.groups # <<>>

Entering(w) ==
    /\ w.pc \in {"write", "clean", "joinbump"} /\ w.key \in Nics /\ Entry(w.entry)
    /\ w = [pc |-> w.pc, key |-> w.key, entry |-> w.entry]

Leaving(w) ==
    /\ w.pc \in {"leave", "leavebump"} /\ w.key \in Nics /\ joined[w.key] # None
    /\ w = [pc |-> w.pc, key |-> w.key]

(* The variables are the functions and records that the actions take them  *)
(* for.                                                                    *)
ApiShape ==
    /\ DOMAIN desired = Policies \cup Nics
    /\ \A r \in Policies : desired[r] \in Specs[r] \cup {None}
    /\ \A o \in Nics : desired[o] \in Joins[o] \cup {None}
    /\ DOMAIN queue = Kinds /\ \A k \in Kinds : queue[k] \in Seq(KeysOf(k))

PolicyWork(w, k) == w = NoWork \/ Applying(w, k) \/ Deleting(w, k)

NicWork(w) == w = NoWork \/ Entering(w) \/ Leaving(w)

WorkShape ==
    /\ DOMAIN worker = Kinds
    /\ \A k \in PolicyKinds : PolicyWork(worker[k], k)
    /\ NicWork(worker["nic"])

StoreShape ==
    /\ installed = [r \in Policies |-> installed[r]]
    /\ DOMAIN joined = Nics /\ \A o \in Nics : joined[o] = None \/ Entry(joined[o])
    /\ DOMAIN rules = Policies /\ DOMAIN meta = Policies
    /\ members \in [Addrs -> Seq(Groups)]
    /\ epoch \in Nat

Shape == ApiShape /\ WorkShape /\ StoreShape

(* What the worker of kind k is doing to policy r.                         *)
WorkOn(k, r) == IF worker[k] # NoWork /\ worker[k].key = r THEN worker[k] ELSE NoWork

(* Outside the part of a pass that ends with the bump, the tables hold     *)
(* what is remembered; inside, they hold what the pass is installing.      *)
PointSound(r, w) ==
    /\ w.pc \notin {"meta", "bump"} => rules[r] \in {installed[r], None}
    /\ w.pc \notin {"bump", "delbump"} => meta[r] = TargetMeta(r)
    /\ w.pc \in {"meta", "bump"} => rules[r] = w.rs
    /\ w.pc = "bump" => meta[r] = MetaOf(w.rs)
    /\ w.pc \in {"delmeta", "delbump"} => rules[r] = None
    /\ w.pc = "delbump" => meta[r] = None

PolicySound == \A k \in PolicyKinds : \A r \in KeysOf(k) : PointSound(r, WorkOn(k, r))

(* The same for the interfaces; two interfaces on record have two          *)
(* addresses.                                                              *)
NicSound(w) ==
    /\ \A o, q \in Nics : o # q /\ joined[o] # None /\ joined[q] # None =>
          joined[o].addr # joined[q].addr
    /\ \A o \in Nics :
          joined[o] # None /\ ~(w.pc \in {"clean", "joinbump", "leavebump"} /\ w.key = o) =>
              members[joined[o].addr] = joined[o].groups
    /\ w.pc \in {"clean", "joinbump"} =>
          /\ members[w.entry.addr] = w.entry.groups
          /\ \A o \in Nics \ {w.key} : joined[o] = None \/ joined[o].addr # w.entry.addr

MemberSound == NicSound(worker["nic"])

WriterInv == Shape /\ PolicySound /\ MemberSound

(***************************************************************************)
(* The packets.                                                            *)
(***************************************************************************)
(* A packet under evaluation knows where it is and when it arrived.        *)
Frame(f) ==
    /\ f = [pc |-> f.pc, hook |-> f.hook, pkt |-> f.pkt, flag |-> f.flag, epoch |-> f.epoch,
            acl |-> f.acl, m |-> f.m, todo |-> f.todo, peer |-> f.peer, any |-> f.any]
    /\ f.hook \in Hooks /\ f.pkt \in Packets /\ f.epoch \in Nat /\ f.todo \in Seq(Groups)
    /\ f.any \in BOOLEAN
    /\ SelfOf(f.hook, f.pkt) \in Local
    /\ f.acl = AclOf[SelfOf(f.hook, f.pkt)]

(* What the layers read so far has decided, given that it was in agreement *)
(* with the memory.                                                        *)
Walked(f) ==
    LET self == RangeOf(TargetGroups(SelfOf(f.hook, f.pkt)))
    IN  /\ AclGrants(f.hook, f.pkt)
        /\ TargetGroups(SelfOf(f.hook, f.pkt)) # <<>>
        /\ f.peer = RangeOf(TargetGroups(PeerOf(f.hook, f.pkt)))
        /\ RangeOf(f.todo) \subseteq self
        /\ ~f.any => \A g \in self \ RangeOf(f.todo) : ~sg_declared(TargetMeta(g), f.hook)

Progress(f) ==
    /\ f.pc = "aclrules" =>
          f.acl # None /\ f.m = TargetMeta(f.acl) /\ acl_has_rules(f.m, f.hook)
    /\ f.pc = "members" => AclGrants(f.hook, f.pkt)
    /\ f.pc = "sgmeta" => Walked(f)
    /\ f.pc = "sgrules" =>
          Walked(f) /\ f.any /\ f.todo # <<>> /\ f.m = TargetMeta(Head(f.todo)) /\ sg_declared(f.m, f.hook)
    /\ f.pc \in {"installrev", "installfwd"} => Granted(f.hook, f.pkt)

Key(k) ==
    /\ k = [epoch |-> k.epoch, hook |-> k.hook, pkt |-> k.pkt]
    /\ k.epoch \in Nat /\ k.hook \in Hooks /\ k.pkt \in Packets

HalfGranted(k) ==
    LET r == policy_ct_reverse_key(k)
    IN  Granted(k.hook, k.pkt) \/ Granted(r.hook, r.pkt)

FrameOK(f) ==
    /\ Frame(f) /\ f.epoch <= epoch /\ (f.pc = "sgrules" => f.todo # <<>>)
    /\ Nearly /\ f.epoch = epoch => Progress(f)

KeyOK(k) ==
    Key(k) /\ k.epoch <= epoch /\ (Nearly /\ k.epoch = epoch => HalfGranted(k))

PacketInv ==
    /\ DOMAIN cpu = Cpus
    /\ \A c \in Cpus : cpu[c] = NoPacket \/ FrameOK(cpu[c])
    /\ \A k \in DOMAIN ct : KeyOK(k)

PInv == WriterInv /\ PacketInv

LEMMA NoWorkIdle == NoWork.pc = "idle"
  BY Zenon DEF NoWork

(***************************************************************************)
(* What the verdict by the memory depends on.                              *)
(***************************************************************************)

(* The verdict by the memory changes with the memory only.                 *)
LEMMA VerdictFollowsMemory ==
    ASSUME installed' = installed, joined' = joined
    PROVE  /\ \A r : TargetMeta(r)' = TargetMeta(r)
           /\ \A a : TargetGroups(a)' = TargetGroups(a)
           /\ \A h, p : Granted(h, p)' <=> Granted(h, p)
           /\ \A f : Progress(f)' <=> Progress(f)
           /\ \A k : HalfGranted(k)' <=> HalfGranted(k)
<1>1. ASSUME NEW r PROVE TargetMeta(r)' = TargetMeta(r)
  BY Zenon DEF TargetMeta
<1>2. ASSUME NEW a PROVE TargetGroups(a)' = TargetGroups(a)
  BY Zenon DEF TargetGroups
<1>3. ASSUME NEW h, NEW p PROVE AclGrants(h, p)' <=> AclGrants(h, p)
  BY Zenon, <1>1 DEF AclGrants
<1>4. ASSUME NEW h, NEW p PROVE Declaring(h, p)' = Declaring(h, p)
  BY Zenon, <1>1, <1>2 DEF Declaring
<1>5. ASSUME NEW g, NEW h, NEW p PROVE GroupGrants(g, h, p)' <=> GroupGrants(g, h, p)
  BY Zenon, <1>1, <1>2 DEF GroupGrants
<1>6. ASSUME NEW h, NEW p PROVE GroupsGrant(h, p)' <=> GroupsGrant(h, p)
  BY Zenon, <1>2, <1>4, <1>5 DEF GroupsGrant
<1>7. ASSUME NEW h, NEW p PROVE Granted(h, p)' <=> Granted(h, p)
  BY Zenon, <1>3, <1>6 DEF Granted
<1>8. ASSUME NEW f PROVE Walked(f)' <=> Walked(f)
  BY Zenon, <1>1, <1>2, <1>3 DEF Walked
<1>9. ASSUME NEW f PROVE Progress(f)' <=> Progress(f)
  BY Zenon, <1>1, <1>3, <1>7, <1>8 DEF Progress
<1>10. ASSUME NEW k PROVE HalfGranted(k)' <=> HalfGranted(k)
  BY Zenon, <1>7 DEF HalfGranted
<1> QED BY Zenon, <1>1, <1>2, <1>7, <1>9, <1>10

(* A step of the writers that leaves the epoch alone keeps the promises to *)
(* packets, if it does not bring the tables back to the memory; so does a  *)
(* step that only removes conntrack entries.                               *)
LEMMA SameEpoch ==
    ASSUME PacketInv, epoch' = epoch, installed' = installed, joined' = joined,
           Nearly' => Nearly, cpu' = cpu, DOMAIN ct' \subseteq DOMAIN ct
    PROVE  PacketInv'
<1>1. ASSUME NEW f, FrameOK(f) PROVE FrameOK(f)'
  <2>1. Progress(f)' <=> Progress(f) BY Zenon, VerdictFollowsMemory
  <2>2. Frame(f)' BY Zenon, <1>1 DEF FrameOK, Frame
  <2> QED BY Zenon, <1>1, <2>1, <2>2 DEF FrameOK
<1>2. ASSUME NEW k, KeyOK(k) PROVE KeyOK(k)'
  <2>1. HalfGranted(k)' <=> HalfGranted(k) BY Zenon, VerdictFollowsMemory
  <2> QED BY Zenon, <1>2, <2>1 DEF KeyOK, Key
<1> QED BY Zenon, <1>1, <1>2 DEF PacketInv

(* A bump puts every packet and every entry into the past.                 *)
LEMMA NextEpoch ==
    ASSUME PacketInv, epoch \in Nat, epoch' = epoch + 1, cpu' = cpu, DOMAIN ct' \subseteq DOMAIN ct
    PROVE  PacketInv'
<1>1. ASSUME NEW f, FrameOK(f) PROVE FrameOK(f)'
  <2>1. Frame(f)' BY Zenon, <1>1 DEF FrameOK, Frame
  <2>2. f.epoch \in Nat /\ f.epoch <= epoch BY Zenon, <1>1 DEF FrameOK, Frame
  <2>3. f.epoch <= epoch' /\ f.epoch # epoch' BY <2>2
  <2>4. f.pc = "sgrules" => f.todo # <<>> BY Zenon, <1>1 DEF FrameOK
  <2> QED BY Zenon, <2>1, <2>3, <2>4 DEF FrameOK
<1>2. ASSUME NEW k, KeyOK(k) PROVE KeyOK(k)'
  <2>1. Key(k) /\ k.epoch \in Nat /\ k.epoch <= epoch BY Zenon, <1>2 DEF KeyOK, Key
  <2>2. k.epoch <= epoch' /\ k.epoch # epoch' BY <2>1
  <2> QED BY Zenon, <2>1, <2>2 DEF KeyOK, Key
<1> QED BY Zenon, <1>1, <1>2 DEF PacketInv

(* A step of a packet: one CPU's frame changes, and the entries that       *)
(* appear are sound.                                                       *)
LEMMA PacketMoves ==
    ASSUME PacketInv, Held, NEW c \in Cpus, NEW f, f = cpu'[c], f = NoPacket \/ FrameOK(f),
           DOMAIN cpu' = DOMAIN cpu, \A d \in Cpus \ {c} : cpu'[d] = cpu[d],
           \A k \in DOMAIN ct' : k \in DOMAIN ct \/ KeyOK(k)
    PROVE  PacketInv'
<1>0. /\ epoch' = epoch /\ installed' = installed /\ joined' = joined
      /\ rules' = rules /\ meta' = meta /\ members' = members
  BY Zenon DEF Held, memory, tables
<1>1. Nearly' <=> Nearly
  BY Zenon, <1>0, VerdictFollowsMemory DEF Nearly
<1>2. ASSUME NEW g, FrameOK(g) PROVE FrameOK(g)'
  <2>1. Progress(g)' <=> Progress(g) BY Zenon, <1>0, VerdictFollowsMemory
  <2>2. Frame(g)' BY Zenon, <1>2 DEF FrameOK, Frame
  <2> QED BY Zenon, <1>0, <1>1, <1>2, <2>1, <2>2 DEF FrameOK
<1>3. ASSUME NEW k, KeyOK(k) PROVE KeyOK(k)'
  <2>1. HalfGranted(k)' <=> HalfGranted(k) BY Zenon, <1>0, VerdictFollowsMemory
  <2> QED BY Zenon, <1>0, <1>1, <1>3, <2>1 DEF KeyOK, Key
<1>4. DOMAIN cpu' = Cpus /\ \A d \in Cpus : cpu'[d] = IF d = c THEN f ELSE cpu[d]
  BY Zenon DEF PacketInv
<1> QED BY Zenon, <1>2, <1>3, <1>4 DEF PacketInv

(***************************************************************************)
(* The frame of a packet after one of its steps.                           *)
(***************************************************************************)
Framed(o, pc, m, todo, peer, any) ==
    [pc |-> pc, hook |-> o.hook, pkt |-> o.pkt, flag |-> o.flag, epoch |-> o.epoch,
     acl |-> o.acl, m |-> m, todo |-> todo, peer |-> peer, any |-> any]

Moved(c, pc, m, todo, peer, any) ==
    /\ DOMAIN cpu' = DOMAIN cpu
    /\ \A d \in Cpus \ {c} : cpu'[d] = cpu[d]
    /\ cpu'[c] = Framed(cpu[c], pc, m, todo, peer, any)

LEMMA FramedIsFrame ==
    ASSUME NEW o, Frame(o), NEW pc, NEW m, NEW todo \in Seq(Groups), NEW peer, NEW any \in BOOLEAN
    PROVE  LET f == Framed(o, pc, m, todo, peer, any)
           IN  /\ Frame(f)
               /\ f.pc = pc /\ f.hook = o.hook /\ f.pkt = o.pkt /\ f.epoch = o.epoch /\ f.acl = o.acl
               /\ f.m = m /\ f.todo = todo /\ f.peer = peer /\ f.any = any
  BY Zenon DEF Framed, Frame

(* The step of a packet that stays on its CPU.                             *)
LEMMA FrameMoves ==
    ASSUME PacketInv, Held, UNCHANGED ct, NEW c \in Cpus, Frame(cpu[c]), cpu[c].epoch <= epoch,
           NEW pc, NEW m, NEW todo \in Seq(Groups), NEW peer, NEW any \in BOOLEAN,
           Moved(c, pc, m, todo, peer, any), pc = "sgrules" => todo # <<>>,
           Nearly /\ cpu[c].epoch = epoch => Progress(Framed(cpu[c], pc, m, todo, peer, any))
    PROVE  PacketInv'
<1> DEFINE f == cpu'[c]
<1>0. /\ f = Framed(cpu[c], pc, m, todo, peer, any)
      /\ DOMAIN cpu' = DOMAIN cpu /\ \A d \in Cpus \ {c} : cpu'[d] = cpu[d]
  BY Zenon DEF Moved
<1> HIDE DEF f
<1>1. Frame(f) /\ f.epoch = cpu[c].epoch /\ f.pc = pc /\ f.todo = todo
  BY <1>0, FramedIsFrame
<1>2. FrameOK(f)
  BY Zenon, <1>0, <1>1 DEF FrameOK
<1>3. \A k \in DOMAIN ct' : k \in DOMAIN ct
  BY Zenon
<1>4. f = cpu'[c] BY Zenon DEF f
<1> QED BY Zenon, <1>0, <1>2, <1>3, <1>4, PacketMoves

(* A verdict frees the CPU.                                                *)
LEMMA FrameEnds ==
    ASSUME PacketInv, Held, NEW c \in Cpus, Verdict(c),
           \A k \in DOMAIN ct' : k \in DOMAIN ct \/ KeyOK(k)
    PROVE  PacketInv'
<1>1. DOMAIN cpu' = DOMAIN cpu /\ cpu'[c] = NoPacket /\ \A d \in Cpus \ {c} : cpu'[d] = cpu[d]
  BY Zenon DEF Verdict, PacketInv
<1> QED BY Zenon, <1>1, PacketMoves

LEMMA BusyFrame ==
    ASSUME PacketInv, NEW c \in Cpus, cpu[c].pc # "idle"
    PROVE  /\ FrameOK(cpu[c]) /\ Frame(cpu[c]) /\ cpu[c].epoch <= epoch
           /\ cpu[c].todo \in Seq(Groups) /\ cpu[c].any \in BOOLEAN
           /\ cpu[c].pc = "sgrules" => cpu[c].todo # <<>>
           /\ Nearly /\ cpu[c].epoch = epoch => Progress(cpu[c])
<1>1. cpu[c] # NoPacket BY DEF NoPacket
<1> QED BY Zenon, <1>1 DEF PacketInv, FrameOK, Frame

(* The ways in which actions write a frame.                                *)
LEMMA CpuWrites ==
    ASSUME DOMAIN cpu = Cpus, NEW c \in Cpus, Frame(cpu[c]),
           NEW pc, NEW m, NEW todo, NEW peer, NEW any
    PROVE  LET o == cpu[c]
           IN  /\ cpu' = [cpu EXCEPT ![c].pc = pc] => Moved(c, pc, o.m, o.todo, o.peer, o.any)
               /\ cpu' = [cpu EXCEPT ![c].pc = pc, ![c].m = m] => Moved(c, pc, m, o.todo, o.peer, o.any)
               /\ cpu' = [cpu EXCEPT ![c].pc = pc, ![c].m = m, ![c].todo = todo, ![c].peer = peer,
                                     ![c].any = any] => Moved(c, pc, m, todo, peer, any)
               /\ cpu' = [cpu EXCEPT ![c].pc = pc, ![c].todo = todo, ![c].peer = peer]
                     => Moved(c, pc, o.m, todo, peer, o.any)
               /\ cpu' = [cpu EXCEPT ![c].todo = todo] => Moved(c, o.pc, o.m, todo, o.peer, o.any)
               /\ cpu' = [cpu EXCEPT ![c].todo = todo, ![c].any = any]
                     => Moved(c, o.pc, o.m, todo, o.peer, any)
               /\ cpu' = [cpu EXCEPT ![c].pc = pc, ![c].m = m, ![c].any = any]
                     => Moved(c, pc, m, o.todo, o.peer, any)
               /\ cpu' = [cpu EXCEPT ![c].todo = todo, ![c].pc = pc, ![c].m = m]
                     => Moved(c, pc, m, todo, o.peer, o.any)
<1> DEFINE o == cpu[c]
<1>0w. Frame(o) BY Zenon
<1> HIDE DEF o
<1>1w. o = Framed(o, o.pc, o.m, o.todo, o.peer, o.any)
  BY Zenon, <1>0w DEF Frame, Framed
<1> DEFINE o1 == [o EXCEPT !.pc = pc]
           o2 == [o EXCEPT !.todo = todo]
           o3 == [o1 EXCEPT !.m = m]
           o4 == [o3 EXCEPT !.todo = todo]
           o5 == [o4 EXCEPT !.peer = peer]
           o6 == [o1 EXCEPT !.todo = todo]
           o7 == [o2 EXCEPT !.pc = pc]
<1>2w. o1 = Framed(o, pc, o.m, o.todo, o.peer, o.any)
  BY <1>1w DEF Framed
<1>3w. o2 = Framed(o, o.pc, o.m, todo, o.peer, o.any)
  BY <1>1w DEF Framed
<1> HIDE DEF o1, o2
<1>4w. o3 = Framed(o, pc, m, o.todo, o.peer, o.any)
  BY <1>2w DEF Framed
<1>5w. o6 = Framed(o, pc, o.m, todo, o.peer, o.any)
  BY <1>2w DEF Framed
<1>6w. o7 = Framed(o, pc, o.m, todo, o.peer, o.any)
  BY <1>3w DEF Framed
<1>7w. [o2 EXCEPT !.any = any] = Framed(o, o.pc, o.m, todo, o.peer, any)
  BY <1>3w DEF Framed
<1> HIDE DEF o3, o6, o7
<1>8w. o4 = Framed(o, pc, m, todo, o.peer, o.any)
  BY <1>4w DEF Framed
<1>9w. [o6 EXCEPT !.peer = peer] = Framed(o, pc, o.m, todo, peer, o.any)
  BY <1>5w DEF Framed
<1>10w. [o7 EXCEPT !.m = m] = Framed(o, pc, m, todo, o.peer, o.any)
  BY <1>6w DEF Framed
<1>11w. [o3 EXCEPT !.any = any] = Framed(o, pc, m, o.todo, o.peer, any)
  BY <1>4w DEF Framed
<1> HIDE DEF o4
<1>12w. o5 = Framed(o, pc, m, todo, peer, o.any)
  BY <1>8w DEF Framed
<1> HIDE DEF o5
<1>13w. [o5 EXCEPT !.any = any] = Framed(o, pc, m, todo, peer, any)
  BY <1>12w DEF Framed
<1>1. ASSUME cpu' = [cpu EXCEPT ![c].pc = pc] PROVE Moved(c, pc, o.m, o.todo, o.peer, o.any)
  <2>1. /\ DOMAIN cpu' = DOMAIN cpu /\ \A d \in Cpus \ {c} : cpu'[d] = cpu[d]
        /\ cpu'[c] = [o EXCEPT !.pc = pc]
    BY Zenon, <1>1 DEF o
  <2> QED BY Zenon, <2>1, <1>2w DEF o, o1, o2, o3, o4, o5, o6, o7, Moved
<1>2. ASSUME cpu' = [cpu EXCEPT ![c].pc = pc, ![c].m = m] PROVE Moved(c, pc, m, o.todo, o.peer, o.any)
  <2>1. /\ DOMAIN cpu' = DOMAIN cpu /\ \A d \in Cpus \ {c} : cpu'[d] = cpu[d]
        /\ cpu'[c] = [o EXCEPT !.pc = pc, !.m = m]
    BY Zenon, <1>2 DEF o
  <2> QED BY Zenon, <2>1, <1>4w DEF o, o1, o2, o3, o4, o5, o6, o7, Moved
<1>3. ASSUME cpu' = [cpu EXCEPT ![c].pc = pc, ![c].m = m, ![c].todo = todo, ![c].peer = peer,
                                ![c].any = any]
      PROVE  Moved(c, pc, m, todo, peer, any)
  <2>1. /\ DOMAIN cpu' = DOMAIN cpu /\ \A d \in Cpus \ {c} : cpu'[d] = cpu[d]
        /\ cpu'[c] = [o EXCEPT !.pc = pc, !.m = m, !.todo = todo, !.peer = peer, !.any = any]
    BY Zenon, <1>3 DEF o
  <2> QED BY Zenon, <2>1, <1>13w DEF o, o1, o2, o3, o4, o5, o6, o7, Moved
<1>4. ASSUME cpu' = [cpu EXCEPT ![c].pc = pc, ![c].todo = todo, ![c].peer = peer]
      PROVE  Moved(c, pc, o.m, todo, peer, o.any)
  <2>1. /\ DOMAIN cpu' = DOMAIN cpu /\ \A d \in Cpus \ {c} : cpu'[d] = cpu[d]
        /\ cpu'[c] = [o EXCEPT !.pc = pc, !.todo = todo, !.peer = peer]
    BY Zenon, <1>4 DEF o
  <2> QED BY Zenon, <2>1, <1>9w DEF o, o1, o2, o3, o4, o5, o6, o7, Moved
<1>5. ASSUME cpu' = [cpu EXCEPT ![c].todo = todo] PROVE Moved(c, o.pc, o.m, todo, o.peer, o.any)
  <2>1. /\ DOMAIN cpu' = DOMAIN cpu /\ \A d \in Cpus \ {c} : cpu'[d] = cpu[d]
        /\ cpu'[c] = [o EXCEPT !.todo = todo]
    BY Zenon, <1>5 DEF o
  <2> QED BY Zenon, <2>1, <1>3w DEF o, o1, o2, o3, o4, o5, o6, o7, Moved
<1>6. ASSUME cpu' = [cpu EXCEPT ![c].todo = todo, ![c].any = any]
      PROVE  Moved(c, o.pc, o.m, todo, o.peer, any)
  <2>1. /\ DOMAIN cpu' = DOMAIN cpu /\ \A d \in Cpus \ {c} : cpu'[d] = cpu[d]
        /\ cpu'[c] = [o EXCEPT !.todo = todo, !.any = any]
    BY Zenon, <1>6 DEF o
  <2> QED BY Zenon, <2>1, <1>7w DEF o, o1, o2, o3, o4, o5, o6, o7, Moved
<1>7. ASSUME cpu' = [cpu EXCEPT ![c].pc = pc, ![c].m = m, ![c].any = any]
      PROVE  Moved(c, pc, m, o.todo, o.peer, any)
  <2>1. /\ DOMAIN cpu' = DOMAIN cpu /\ \A d \in Cpus \ {c} : cpu'[d] = cpu[d]
        /\ cpu'[c] = [o EXCEPT !.pc = pc, !.m = m, !.any = any]
    BY Zenon, <1>7 DEF o
  <2> QED BY Zenon, <2>1, <1>11w DEF o, o1, o2, o3, o4, o5, o6, o7, Moved
<1>8. ASSUME cpu' = [cpu EXCEPT ![c].todo = todo, ![c].pc = pc, ![c].m = m]
      PROVE  Moved(c, pc, m, todo, o.peer, o.any)
  <2>1. /\ DOMAIN cpu' = DOMAIN cpu /\ \A d \in Cpus \ {c} : cpu'[d] = cpu[d]
        /\ cpu'[c] = [o EXCEPT !.todo = todo, !.pc = pc, !.m = m]
    BY Zenon, <1>8 DEF o
  <2> QED BY Zenon, <2>1, <1>10w DEF o, o1, o2, o3, o4, o5, o6, o7, Moved
<1> QED BY Zenon, <1>1, <1>2, <1>3, <1>4, <1>5, <1>6, <1>7, <1>8 DEF o

(***************************************************************************)
(* One lemma per step of a packet.                                         *)
(***************************************************************************)

(* Where a packet and its ACL may be.                                      *)
LEMMA Places ==
    ASSUME NEW f, Frame(f)
    PROVE  /\ SelfOf(f.hook, f.pkt) \in Addrs /\ PeerOf(f.hook, f.pkt) \in Addrs
           /\ f.acl # None => f.acl \in Policies
<1>1. f.hook \in Hooks /\ f.pkt \in Packets /\ SelfOf(f.hook, f.pkt) \in Local
      /\ f.acl = AclOf[SelfOf(f.hook, f.pkt)]
  BY Zenon DEF Frame
<1>2. f.pkt.src \in Addrs /\ f.pkt.dst \in Addrs
  BY Zenon, <1>1, PolicyAssumption
<1>3. AclOf[SelfOf(f.hook, f.pkt)] \in Acls \cup {None}
  BY Zenon, <1>1, PolicyAssumption
<1> QED BY Zenon, <1>1, <1>2, <1>3 DEF SelfOf, PeerOf, Policies

LEMMA RangeFacts ==
    ASSUME NEW s \in Seq(Groups)
    PROVE  /\ RangeOf(s) \subseteq Policies
           /\ s # <<>> => /\ Head(s) \in RangeOf(s) /\ Tail(s) \in Seq(Groups)
                          /\ RangeOf(s) = {Head(s)} \cup RangeOf(Tail(s))
           /\ s = <<>> => RangeOf(s) = {}
<1>1. RangeOf(s) \subseteq Policies
  BY DEF RangeOf, Policies
<1>2. ASSUME s # <<>>
      PROVE  /\ Head(s) \in RangeOf(s) /\ Tail(s) \in Seq(Groups)
             /\ RangeOf(s) = {Head(s)} \cup RangeOf(Tail(s))
  <2>1. Len(s) \in Nat /\ Len(s) >= 1 /\ DOMAIN s = 1 .. Len(s) /\ Head(s) = s[1]
    BY <1>2
  <2>2. Tail(s) \in Seq(Groups) /\ DOMAIN Tail(s) = 1 .. (Len(s) - 1)
        /\ \A i \in 1 .. (Len(s) - 1) : Tail(s)[i] = s[i + 1]
    BY <1>2, <2>1
  <2>3. Head(s) \in RangeOf(s)
    BY <2>1 DEF RangeOf
  <2>4. ASSUME NEW x \in RangeOf(s) PROVE x \in {Head(s)} \cup RangeOf(Tail(s))
    <3>1. PICK i \in 1 .. Len(s) : x = s[i] BY Zenon, <2>1 DEF RangeOf
    <3>2. CASE i = 1 BY Zenon, <3>1, <3>2, <2>1
    <3>3. CASE i # 1
      <4>1. i - 1 \in 1 .. (Len(s) - 1) /\ (i - 1) + 1 = i BY <3>3, <2>1
      <4>2. Tail(s)[i - 1] = x BY Zenon, <4>1, <3>1, <2>2
      <4> QED BY Zenon, <4>1, <4>2, <2>2 DEF RangeOf
    <3> QED BY Zenon, <3>2, <3>3
  <2>5. ASSUME NEW x \in RangeOf(Tail(s)) PROVE x \in RangeOf(s)
    <3>1. PICK i \in 1 .. (Len(s) - 1) : x = Tail(s)[i] BY Zenon, <2>2 DEF RangeOf
    <3>2. x = s[i + 1] /\ i + 1 \in 1 .. Len(s) BY <3>1, <2>1, <2>2
    <3> QED BY Zenon, <3>2, <2>1 DEF RangeOf
  <2> QED BY Zenon, <2>2, <2>3, <2>4, <2>5
<1>3. ASSUME s = <<>> PROVE RangeOf(s) = {}
  BY <1>3 DEF RangeOf
<1> QED BY Zenon, <1>1, <1>2, <1>3

(* The epoch is read before anything else.                                 *)
LEMMA ArriveSafe ==
    ASSUME PInv, NEW c \in Cpus, NEW h \in Hooks, NEW p \in Packets, Arrive(c, h, p)
    PROVE  PacketInv'
<1>0. PacketInv /\ epoch \in Nat BY Zenon DEF PInv, WriterInv, Shape, StoreShape
<1>1. PICK fl \in Flags : cpu' = [cpu EXCEPT ![c] =
         [pc |-> "lookup", hook |-> h, pkt |-> p, flag |-> fl, epoch |-> epoch,
          acl |-> AclOf[SelfOf(h, p)], m |-> None, todo |-> <<>>, peer |-> {}, any |-> FALSE]]
  BY Zenon DEF Arrive
<1> DEFINE f == [pc |-> "lookup", hook |-> h, pkt |-> p, flag |-> fl, epoch |-> epoch,
                 acl |-> AclOf[SelfOf(h, p)], m |-> None, todo |-> <<>>, peer |-> {}, any |-> FALSE]
<1>2. Frame(f)
  <2>1. /\ f = [pc |-> f.pc, hook |-> f.hook, pkt |-> f.pkt, flag |-> f.flag, epoch |-> f.epoch,
               acl |-> f.acl, m |-> f.m, todo |-> f.todo, peer |-> f.peer, any |-> f.any]
        /\ f.hook = h /\ f.pkt = p /\ f.epoch = epoch /\ f.todo = <<>> /\ f.any = FALSE
        /\ f.acl = AclOf[SelfOf(h, p)]
    BY Zenon
  <2>2. SelfOf(h, p) \in Local BY Zenon DEF Arrive
  <2>3. <<>> \in Seq(Groups) OBVIOUS
  <2> HIDE DEF f
  <2> QED BY Zenon, <1>0, <2>1, <2>2, <2>3 DEF Frame
<1>3. f.pc = "lookup" /\ f.epoch = epoch
  BY Zenon
<1>4. DOMAIN cpu' = DOMAIN cpu /\ cpu'[c] = f /\ \A d \in Cpus \ {c} : cpu'[d] = cpu[d]
  BY Zenon, <1>0, <1>1 DEF PacketInv
<1> HIDE DEF f
<1>5. FrameOK(f)
  BY <1>0, <1>2, <1>3 DEF FrameOK, Progress
<1>6. Held /\ UNCHANGED ct
  BY Zenon DEF Arrive
<1> QED BY Zenon, <1>0, <1>4, <1>5, <1>6, PacketMoves

(* The entries that a lookup may find were there, or go.                   *)
LEMMA LookupSafe ==
    ASSUME PInv, NEW c \in Cpus, Lookup(c)
    PROVE  PacketInv'
<1>0. /\ PacketInv /\ Held /\ cpu[c].pc = "lookup" /\ DOMAIN cpu = Cpus
  BY Zenon DEF PInv, Lookup, PacketInv
<1>1. /\ FrameOK(cpu[c]) /\ Frame(cpu[c]) /\ cpu[c].epoch <= epoch
      /\ cpu[c].todo \in Seq(Groups) /\ cpu[c].any \in BOOLEAN
  BY Zenon, <1>0, BusyFrame
<1>2. CASE Step(c, "aclmeta") /\ UNCHANGED ct
  <2>1. Moved(c, "aclmeta", cpu[c].m, cpu[c].todo, cpu[c].peer, cpu[c].any)
    BY Zenon, <1>0, <1>1, <1>2, CpuWrites DEF Step
  <2> DEFINE f == Framed(cpu[c], "aclmeta", cpu[c].m, cpu[c].todo, cpu[c].peer, cpu[c].any)
  <2>2. f.pc = "aclmeta"
    BY <1>1, FramedIsFrame
  <2>3. Progress(f)
    <3> HIDE DEF f
    <3> QED BY Zenon, <2>2 DEF Progress
  <2> QED BY <1>0, <1>1, <1>2, <2>1, <2>3, FrameMoves
<1>3. CASE Verdict(c) /\ DOMAIN ct' = DOMAIN ct
  BY Zenon, <1>0, <1>3, FrameEnds
<1>4. CASE Step(c, "close") /\ DOMAIN ct' \subseteq DOMAIN ct
  <2> DEFINE f == Framed(cpu[c], "close", cpu[c].m, cpu[c].todo, cpu[c].peer, cpu[c].any)
  <2>1. Moved(c, "close", cpu[c].m, cpu[c].todo, cpu[c].peer, cpu[c].any)
    BY Zenon, <1>0, <1>1, <1>4, CpuWrites DEF Step
  <2>2. Frame(f) /\ f.epoch = cpu[c].epoch /\ f.pc = "close"
    BY <1>1, FramedIsFrame
  <2>3. /\ cpu'[c] = f /\ DOMAIN cpu' = DOMAIN cpu /\ \A d \in Cpus \ {c} : cpu'[d] = cpu[d]
    BY Zenon, <2>1 DEF Moved
  <2> HIDE DEF f
  <2>4. FrameOK(f)
    BY Zenon, <1>1, <2>2 DEF FrameOK, Progress
  <2> QED BY Zenon, <1>0, <1>4, <2>3, <2>4, PacketMoves
<1> QED BY Zenon, <1>2, <1>3, <1>4 DEF Lookup

LEMMA CloseSelfSafe ==
    ASSUME PInv, NEW c \in Cpus, CloseSelf(c)
    PROVE  PacketInv'
<1>1. PacketInv /\ Held /\ Verdict(c) /\ DOMAIN ct' \subseteq DOMAIN ct
  BY Zenon DEF PInv, CloseSelf
<1> QED BY Zenon, <1>1, FrameEnds

(* What an ACL's meta entry and rules say when they are those of the       *)
(* memory, or the rules are gone.                                          *)
LEMMA AclMetaSafe ==
    ASSUME PInv, NEW c \in Cpus, AclMeta(c)
    PROVE  PacketInv'
<1> DEFINE o == cpu[c]
<1>0. PacketInv /\ Held /\ UNCHANGED ct /\ o.pc = "aclmeta" /\ DOMAIN cpu = Cpus
  BY Zenon DEF PInv, AclMeta, PacketInv
<1>1. /\ Frame(o) /\ o.epoch <= epoch /\ o.todo \in Seq(Groups) /\ o.any \in BOOLEAN
  BY Zenon, <1>0, BusyFrame
<1>2. o.acl = AclOf[SelfOf(o.hook, o.pkt)] /\ (o.acl # None => o.acl \in Policies)
  BY Zenon, <1>1, Places DEF Frame
<1>3. CASE o.acl # None /\ acl_has_rules(meta[o.acl], o.hook)
  <2> DEFINE f == Framed(o, "aclrules", meta[o.acl], o.todo, o.peer, o.any)
  <2>1. cpu' = [cpu EXCEPT ![c].pc = "aclrules", ![c].m = meta[o.acl]]
    BY Zenon, <1>3 DEF AclMeta
  <2>2. Moved(c, "aclrules", meta[o.acl], o.todo, o.peer, o.any)
    BY Zenon, <1>0, <1>1, <2>1, CpuWrites
  <2>3. f.pc = "aclrules" /\ f.acl = o.acl /\ f.hook = o.hook /\ f.m = meta[o.acl]
    BY <1>1, FramedIsFrame
  <2>4. ASSUME Nearly PROVE Progress(f)
    <3>1. meta[o.acl] = TargetMeta(o.acl) BY Zenon, <2>4, <1>2, <1>3 DEF Nearly
    <3> HIDE DEF f
    <3> QED BY Zenon, <3>1, <2>3, <1>3 DEF Progress
  <2> QED BY <1>0, <1>1, <2>2, <2>4, FrameMoves
<1>4. CASE ~(o.acl # None /\ acl_has_rules(meta[o.acl], o.hook))
  <2> DEFINE f == Framed(o, "members", o.m, o.todo, o.peer, o.any)
  <2>1. cpu' = [cpu EXCEPT ![c].pc = "members"]
    BY Zenon, <1>4 DEF AclMeta, Step
  <2>2. Moved(c, "members", o.m, o.todo, o.peer, o.any)
    BY Zenon, <1>0, <1>1, <2>1, CpuWrites
  <2>3. f.pc = "members" /\ f.hook = o.hook /\ f.pkt = o.pkt
    BY <1>1, FramedIsFrame
  <2>4. ASSUME Nearly PROVE Progress(f)
    <3>1. o.acl # None => meta[o.acl] = TargetMeta(o.acl) BY Zenon, <2>4, <1>2 DEF Nearly
    <3>2. AclGrants(o.hook, o.pkt) BY Zenon, <3>1, <1>2, <1>4 DEF AclGrants, acl_evaluate
    <3> HIDE DEF f
    <3> QED BY Zenon, <3>2, <2>3 DEF Progress
  <2> QED BY <1>0, <1>1, <2>2, <2>4, FrameMoves
<1> QED BY Zenon, <1>3, <1>4

LEMMA AclRulesSafe ==
    ASSUME PInv, NEW c \in Cpus, AclRules(c)
    PROVE  PacketInv'
<1> DEFINE o == cpu[c]
<1>0. PacketInv /\ Held /\ UNCHANGED ct /\ o.pc = "aclrules" /\ DOMAIN cpu = Cpus
  BY Zenon DEF PInv, AclRules, PacketInv
<1>1. /\ Frame(o) /\ o.epoch <= epoch /\ o.todo \in Seq(Groups) /\ o.any \in BOOLEAN
      /\ Nearly /\ o.epoch = epoch => Progress(o)
  BY Zenon, <1>0, BusyFrame
<1>2. o.acl = AclOf[SelfOf(o.hook, o.pkt)] /\ (o.acl # None => o.acl \in Policies)
  BY Zenon, <1>1, Places DEF Frame
<1>3. CASE acl_evaluate(o.m, rules[o.acl], o.hook, o.pkt) = "deny"
  <2>1. Verdict(c) BY Zenon, <1>3 DEF AclRules
  <2> QED BY Zenon, <1>0, <2>1, FrameEnds
<1>4. CASE acl_evaluate(o.m, rules[o.acl], o.hook, o.pkt) # "deny"
  <2> DEFINE f == Framed(o, "members", None, o.todo, o.peer, o.any)
  <2>1. cpu' = [cpu EXCEPT ![c].pc = "members", ![c].m = None]
    BY Zenon, <1>4 DEF AclRules
  <2>2. Moved(c, "members", None, o.todo, o.peer, o.any)
    BY Zenon, <1>0, <1>1, <2>1, CpuWrites
  <2>3. f.pc = "members" /\ f.hook = o.hook /\ f.pkt = o.pkt
    BY <1>1, FramedIsFrame
  <2>4. ASSUME Nearly, o.epoch = epoch PROVE Progress(f)
    <3>1. o.acl # None /\ o.m = TargetMeta(o.acl) /\ acl_has_rules(o.m, o.hook)
      BY Zenon, <1>0, <1>1, <2>4 DEF Progress
    <3>2. rules[o.acl] # None
      BY Zenon, <3>1, <1>4 DEF acl_evaluate
    <3>3. rules[o.acl] = installed[o.acl]
      BY Zenon, <3>1, <3>2, <2>4, <1>2 DEF Nearly
    <3>4. AclGrants(o.hook, o.pkt)
      BY Zenon, <3>1, <3>3, <1>2, <1>4 DEF AclGrants
    <3> HIDE DEF f
    <3> QED BY Zenon, <3>4, <2>3 DEF Progress
  <2> QED BY <1>0, <1>1, <2>2, <2>4, FrameMoves
<1> QED BY Zenon, <1>3, <1>4

(* A Pod in no group is admitted by the ACL alone.                         *)
LEMMA AdmitSafe ==
    ASSUME PacketInv, Held, UNCHANGED ct, NEW c \in Cpus, cpu[c].pc # "idle", Admit(c),
           Nearly /\ cpu[c].epoch = epoch => Granted(cpu[c].hook, cpu[c].pkt)
    PROVE  PacketInv'
<1> DEFINE o == cpu[c]
           f == Framed(o, "installrev", None, <<>>, {}, FALSE)
<1>1. Frame(o) /\ o.epoch <= epoch /\ DOMAIN cpu = Cpus
  BY Zenon, BusyFrame DEF PacketInv
<1>2. Moved(c, "installrev", None, <<>>, {}, FALSE)
  BY Zenon, <1>1, CpuWrites DEF Admit
<1>3. <<>> \in Seq(Groups) /\ FALSE \in BOOLEAN
  OBVIOUS
<1>4. f.pc = "installrev" /\ f.hook = o.hook /\ f.pkt = o.pkt
  BY Zenon DEF Framed
<1>5. Nearly /\ o.epoch = epoch => Progress(f)
  <2> HIDE DEF f
  <2> QED BY Zenon, <1>4 DEF Progress
<1> QED BY Zenon, <1>1, <1>2, <1>3, <1>5, FrameMoves

LEMMA MembersSafe ==
    ASSUME PInv, NEW c \in Cpus, Members(c)
    PROVE  PacketInv'
<1> DEFINE o == cpu[c]
           self == members[SelfOf(o.hook, o.pkt)]
           peer == RangeOf(members[PeerOf(o.hook, o.pkt)])
<1>0. PacketInv /\ Held /\ UNCHANGED ct /\ o.pc = "members" /\ DOMAIN cpu = Cpus
  BY Zenon DEF PInv, Members, PacketInv
<1>1. /\ Frame(o) /\ o.epoch <= epoch /\ o.any \in BOOLEAN
      /\ Nearly /\ o.epoch = epoch => Progress(o)
  BY Zenon, <1>0, BusyFrame
<1>2. /\ SelfOf(o.hook, o.pkt) \in Addrs /\ PeerOf(o.hook, o.pkt) \in Addrs
      /\ SelfOf(o.hook, o.pkt) \in Local
  BY Zenon, <1>1, Places DEF Frame
<1>3. self \in Seq(Groups)
  BY Zenon, <1>2 DEF PInv, WriterInv, Shape, StoreShape
<1>4. ASSUME Nearly, o.epoch = epoch
      PROVE  /\ AclGrants(o.hook, o.pkt)
             /\ self = TargetGroups(SelfOf(o.hook, o.pkt))
             /\ peer = RangeOf(TargetGroups(PeerOf(o.hook, o.pkt)))
  <2>1. AclGrants(o.hook, o.pkt) BY Zenon, <1>0, <1>1, <1>4 DEF Progress
  <2>2. members[SelfOf(o.hook, o.pkt)] = TargetGroups(SelfOf(o.hook, o.pkt))
    BY Zenon, <1>2, <1>4 DEF Nearly
  <2>3. members[PeerOf(o.hook, o.pkt)] = TargetGroups(PeerOf(o.hook, o.pkt))
    BY Zenon, <1>2, <1>4 DEF Nearly
  <2> QED BY Zenon, <2>1, <2>2, <2>3
<1>5. CASE self # <<>>
  <2> DEFINE f == Framed(o, "sgmeta", o.m, self, peer, o.any)
  <2>1. cpu' = [cpu EXCEPT ![c].pc = "sgmeta", ![c].todo = self, ![c].peer = peer]
    BY Zenon, <1>5 DEF Members
  <2>2. Moved(c, "sgmeta", o.m, self, peer, o.any)
    <3> HIDE DEF self, peer
    <3> QED BY Zenon, <1>0, <1>1, <2>1, CpuWrites
  <2>3. f.pc = "sgmeta" /\ f.hook = o.hook /\ f.pkt = o.pkt /\ f.todo = self /\ f.peer = peer
    <3> HIDE DEF self, peer
    <3> QED BY <1>1, <1>3, FramedIsFrame
  <2>4. ASSUME Nearly, o.epoch = epoch PROVE Progress(f)
    <3> HIDE DEF f, self, peer
    <3>1. Walked(f) BY Zenon, <1>4, <1>5, <2>3, <2>4 DEF Walked
    <3> QED BY Zenon, <3>1, <2>3 DEF Progress
  <2> QED
    <3> HIDE DEF self, peer
    <3> QED BY <1>0, <1>1, <1>3, <2>2, <2>4, FrameMoves
<1>6. CASE self = <<>> /\ cpu[c].acl = None
  <2>1. Verdict(c) BY Zenon, <1>6 DEF Members
  <2> QED BY Zenon, <1>0, <2>1, FrameEnds
<1>7. CASE self = <<>> /\ cpu[c].acl # None
  <2>1. Admit(c) BY Zenon, <1>7 DEF Members
  <2>2. Nearly /\ o.epoch = epoch => Granted(o.hook, o.pkt)
    BY Zenon, <1>2, <1>4, <1>7 DEF Granted, GroupsGrant
  <2> QED BY Zenon, <1>0, <2>1, <2>2, AdmitSafe
<1> QED BY Zenon, <1>5, <1>6, <1>7

(* The groups are looked at one by one: the ones behind the packet have    *)
(* declared nothing, or any is set.                                        *)
LEMMA SgMetaSafe ==
    ASSUME PInv, NEW c \in Cpus, SgMeta(c)
    PROVE  PacketInv'
<1> DEFINE o == cpu[c]
           g == Head(o.todo)
           rest == Tail(o.todo)
<1>0. PacketInv /\ Held /\ UNCHANGED ct /\ o.pc = "sgmeta" /\ DOMAIN cpu = Cpus
  BY Zenon DEF PInv, SgMeta, PacketInv
<1>1. /\ Frame(o) /\ o.epoch <= epoch /\ o.todo \in Seq(Groups) /\ o.any \in BOOLEAN
      /\ Nearly /\ o.epoch = epoch => Progress(o)
  BY Zenon, <1>0, BusyFrame
<1>2. SelfOf(o.hook, o.pkt) \in Local /\ o.hook \in Hooks
  BY Zenon, <1>1 DEF Frame
<1>3. Nearly /\ o.epoch = epoch => Walked(o)
  BY Zenon, <1>0, <1>1 DEF Progress
<1>4. o.todo # <<>> =>
         /\ g \in RangeOf(o.todo) /\ g \in Policies /\ rest \in Seq(Groups)
         /\ RangeOf(o.todo) = {g} \cup RangeOf(rest)
  BY Zenon, <1>1, RangeFacts
<1>5. ASSUME o.todo # <<>>, Nearly PROVE meta[g] = TargetMeta(g)
  BY Zenon, <1>4, <1>5 DEF Nearly
<1>6. CASE o.todo = <<>> /\ sg_default(o.any, o.hook) = "pass"
  <2>1. Admit(c) BY Zenon, <1>6 DEF SgMeta
  <2>2. ASSUME Nearly, o.epoch = epoch PROVE Granted(o.hook, o.pkt)
    <3>1. o.hook = "egress" /\ ~o.any BY Zenon, <1>6 DEF sg_default
    <3>2. RangeOf(o.todo) = {} BY <1>6 DEF RangeOf
    <3>3. Declaring(o.hook, o.pkt) = {}
      BY Zenon, <1>3, <2>2, <3>1, <3>2 DEF Walked, Declaring
    <3>4. sg_default(Declaring(o.hook, o.pkt) # {}, o.hook) = "pass"
      BY Zenon, <3>1, <3>3 DEF sg_default
    <3> QED BY Zenon, <1>2, <1>3, <2>2, <3>4 DEF Granted, GroupsGrant, Walked
  <2> QED BY Zenon, <1>0, <2>1, <2>2, AdmitSafe
<1>7. CASE o.todo = <<>> /\ sg_default(o.any, o.hook) # "pass"
  <2>1. Verdict(c) BY Zenon, <1>7 DEF SgMeta
  <2> QED BY Zenon, <1>0, <2>1, FrameEnds
<1>8. CASE o.todo # <<>> /\ ~sg_declared(meta[g], o.hook)
  <2> DEFINE f == Framed(o, o.pc, o.m, rest, o.peer, o.any)
  <2>1. cpu' = [cpu EXCEPT ![c].todo = rest]
    BY Zenon, <1>8 DEF SgMeta
  <2>2. Moved(c, o.pc, o.m, rest, o.peer, o.any)
    <3> HIDE DEF rest
    <3> QED BY Zenon, <1>0, <1>1, <2>1, CpuWrites
  <2>3. /\ f.pc = "sgmeta" /\ f.hook = o.hook /\ f.pkt = o.pkt /\ f.todo = rest /\ f.peer = o.peer
        /\ f.any = o.any
    BY Zenon, <1>0 DEF Framed
  <2>4. ASSUME Nearly, o.epoch = epoch PROVE Progress(f)
    <3> HIDE DEF f, rest, g
    <3>1. Walked(f) BY Zenon, <1>3, <1>4, <1>5, <1>8, <2>3, <2>4 DEF Walked
    <3> QED BY Zenon, <3>1, <2>3 DEF Progress
  <2> QED
    <3> HIDE DEF rest
    <3> QED BY Zenon, <1>0, <1>1, <1>4, <1>8, <2>2, <2>4, FrameMoves
<1>9. CASE o.todo # <<>> /\ sg_declared(meta[g], o.hook) /\ meta[g][o.hook] = 0
  <2> DEFINE f == Framed(o, o.pc, o.m, rest, o.peer, TRUE)
  <2>1. cpu' = [cpu EXCEPT ![c].todo = rest, ![c].any = TRUE]
    BY Zenon, <1>9 DEF SgMeta
  <2>2. Moved(c, o.pc, o.m, rest, o.peer, TRUE)
    <3> HIDE DEF rest
    <3> QED BY Zenon, <1>0, <1>1, <2>1, CpuWrites
  <2>3. /\ f.pc = "sgmeta" /\ f.hook = o.hook /\ f.pkt = o.pkt /\ f.todo = rest /\ f.peer = o.peer
        /\ f.any
    BY Zenon, <1>0 DEF Framed
  <2>4. ASSUME Nearly, o.epoch = epoch PROVE Progress(f)
    <3> HIDE DEF f, rest, g
    <3>1. Walked(f) BY Zenon, <1>3, <1>4, <1>9, <2>3, <2>4 DEF Walked
    <3> QED BY Zenon, <3>1, <2>3 DEF Progress
  <2>5. TRUE \in BOOLEAN BY Zenon
  <2> QED
    <3> HIDE DEF rest
    <3> QED BY Zenon, <1>0, <1>1, <1>4, <1>9, <2>2, <2>4, <2>5, FrameMoves
<1>10. CASE o.todo # <<>> /\ sg_declared(meta[g], o.hook) /\ meta[g][o.hook] # 0
  <2> DEFINE f == Framed(o, "sgrules", meta[g], o.todo, o.peer, TRUE)
  <2>1. cpu' = [cpu EXCEPT ![c].pc = "sgrules", ![c].m = meta[g], ![c].any = TRUE]
    BY Zenon, <1>10 DEF SgMeta
  <2>2. Moved(c, "sgrules", meta[g], o.todo, o.peer, TRUE)
    <3> HIDE DEF g
    <3> QED BY Zenon, <1>0, <1>1, <2>1, CpuWrites
  <2>3. /\ f.pc = "sgrules" /\ f.hook = o.hook /\ f.pkt = o.pkt /\ f.todo = o.todo
        /\ f.peer = o.peer /\ f.any /\ f.m = meta[g]
    BY Zenon DEF Framed
  <2>4. ASSUME Nearly, o.epoch = epoch PROVE Progress(f)
    <3>1. g = Head(f.todo) BY Zenon, <2>3
    <3> HIDE DEF f, g
    <3>2. Walked(f) BY Zenon, <1>3, <2>3, <2>4 DEF Walked
    <3> QED BY Zenon, <1>5, <1>10, <2>3, <2>4, <3>1, <3>2 DEF Progress
  <2>5. TRUE \in BOOLEAN BY Zenon
  <2> QED
    <3> HIDE DEF g
    <3> QED BY Zenon, <1>0, <1>1, <1>10, <2>2, <2>4, <2>5, FrameMoves
<1> QED BY Zenon, <1>6, <1>7, <1>8, <1>9, <1>10

LEMMA SgRulesSafe ==
    ASSUME PInv, NEW c \in Cpus, SgRules(c)
    PROVE  PacketInv'
<1> DEFINE o == cpu[c]
           g == Head(o.todo)
           rest == Tail(o.todo)
           passes == sg_eval_one_sg(o.m, rules[g], o.hook, o.pkt, o.peer)
<1>0. PacketInv /\ Held /\ UNCHANGED ct /\ o.pc = "sgrules" /\ DOMAIN cpu = Cpus
  BY Zenon DEF PInv, SgRules, PacketInv
<1>1. /\ Frame(o) /\ o.epoch <= epoch /\ o.todo \in Seq(Groups) /\ o.any \in BOOLEAN
      /\ Nearly /\ o.epoch = epoch => Progress(o)
  BY Zenon, <1>0, BusyFrame
<1>2. SelfOf(o.hook, o.pkt) \in Local
  BY Zenon, <1>1 DEF Frame
<1>3. Nearly /\ o.epoch = epoch =>
         /\ Walked(o) /\ o.any /\ o.todo # <<>> /\ o.m = TargetMeta(g)
         /\ sg_declared(o.m, o.hook)
  BY Zenon, <1>0, <1>1 DEF Progress
<1>4. o.todo # <<>> =>
         /\ g \in RangeOf(o.todo) /\ g \in Policies /\ rest \in Seq(Groups)
         /\ RangeOf(o.todo) = {g} \cup RangeOf(rest)
  BY Zenon, <1>1, RangeFacts
<1>5. CASE passes
  <2>1. Admit(c) BY Zenon, <1>5 DEF SgRules
  <2>2. ASSUME Nearly, o.epoch = epoch PROVE Granted(o.hook, o.pkt)
    <3> HIDE DEF g
    <3>1. rules[g] # None BY Zenon, <1>5 DEF sg_eval_one_sg
    <3>2. rules[g] = installed[g]
      BY Zenon, <1>3, <1>4, <2>2, <3>1 DEF Nearly
    <3>3. GroupGrants(g, o.hook, o.pkt)
      BY Zenon, <1>3, <1>5, <2>2, <3>2 DEF GroupGrants, Walked
    <3>4. g \in Declaring(o.hook, o.pkt)
      BY Zenon, <1>3, <1>4, <2>2 DEF Declaring, Walked
    <3> QED BY Zenon, <1>2, <1>3, <2>2, <3>3, <3>4 DEF Granted, GroupsGrant, Walked
  <2> QED BY Zenon, <1>0, <2>1, <2>2, AdmitSafe
<1>6. CASE ~passes
  <2> DEFINE f == Framed(o, "sgmeta", None, rest, o.peer, o.any)
  <2>1. cpu' = [cpu EXCEPT ![c].todo = rest, ![c].pc = "sgmeta", ![c].m = None]
    BY Zenon, <1>6 DEF SgRules
  <2>2. Moved(c, "sgmeta", None, rest, o.peer, o.any)
    <3> HIDE DEF rest
    <3> QED BY Zenon, <1>0, <1>1, <2>1, CpuWrites
  <2>3. /\ f.pc = "sgmeta" /\ f.hook = o.hook /\ f.pkt = o.pkt /\ f.todo = rest /\ f.peer = o.peer
        /\ f.any = o.any
    BY Zenon DEF Framed
  <2>4. ASSUME Nearly, o.epoch = epoch PROVE Progress(f)
    <3> HIDE DEF f, rest, g
    <3>1. Walked(f) BY Zenon, <1>3, <1>4, <2>3, <2>4 DEF Walked
    <3> QED BY Zenon, <3>1, <2>3 DEF Progress
  <2>5. rest \in Seq(Groups) BY Zenon, <1>0, <1>4, BusyFrame
  <2> QED
    <3> HIDE DEF rest
    <3> QED BY <1>0, <1>1, <2>2, <2>4, <2>5, FrameMoves
<1> QED BY Zenon, <1>5, <1>6

(* The reverse of a reverse key is the key.                                *)
LEMMA ReverseKey ==
    ASSUME NEW k, Key(k)
    PROVE  LET r == policy_ct_reverse_key(k)
           IN  Key(r) /\ r.epoch = k.epoch /\ policy_ct_reverse_key(r) = k
<1>1. Mirror(k.pkt) \in Packets /\ Mirror(Mirror(k.pkt)) = k.pkt
  BY Zenon, PolicyAssumption DEF Key
<1>2. /\ policy_ct_peer_hook(k.hook) \in Hooks
      /\ policy_ct_peer_hook(policy_ct_peer_hook(k.hook)) = k.hook
  BY Zenon DEF Key, Hooks, policy_ct_peer_hook
<1> QED BY Zenon, <1>1, <1>2 DEF Key, policy_ct_reverse_key

(* Both halves of an admission are as sound as the admission.              *)
LEMMA HalvesOK ==
    ASSUME PacketInv, NEW c \in Cpus, cpu[c].pc \in {"installrev", "installfwd"}
    PROVE  KeyOK(KeyOf(c)) /\ KeyOK(policy_ct_reverse_key(KeyOf(c)))
<1> DEFINE k == KeyOf(c)
           r == policy_ct_reverse_key(k)
<1>1. /\ Frame(cpu[c]) /\ cpu[c].epoch <= epoch
      /\ Nearly /\ cpu[c].epoch = epoch => Granted(cpu[c].hook, cpu[c].pkt)
  BY Zenon, BusyFrame DEF Progress
<1>2. Key(k) /\ k.epoch = cpu[c].epoch /\ k.hook = cpu[c].hook /\ k.pkt = cpu[c].pkt
  BY Zenon, <1>1 DEF KeyOf, Key, Frame
<1> HIDE DEF k
<1>3. Key(r) /\ r.epoch = k.epoch /\ policy_ct_reverse_key(r) = k
  BY Zenon, <1>2, ReverseKey
<1> HIDE DEF r
<1>4. Nearly /\ k.epoch = epoch => HalfGranted(k) /\ HalfGranted(r)
  BY Zenon, <1>1, <1>2, <1>3 DEF HalfGranted
<1> QED BY Zenon, <1>1, <1>2, <1>3, <1>4 DEF KeyOK, k, r

LEMMA InstallReverseSafe ==
    ASSUME PInv, NEW c \in Cpus, InstallReverse(c)
    PROVE  PacketInv'
<1> DEFINE o == cpu[c]
           r == policy_ct_reverse_key(KeyOf(c))
<1>0. PacketInv /\ Held /\ o.pc = "installrev" /\ DOMAIN cpu = Cpus
  BY Zenon DEF PInv, InstallReverse, PacketInv
<1>1. /\ Frame(o) /\ o.epoch <= epoch /\ o.todo \in Seq(Groups) /\ o.any \in BOOLEAN
      /\ Nearly /\ o.epoch = epoch => Granted(o.hook, o.pkt)
  BY Zenon, <1>0, BusyFrame DEF Progress
<1>2. KeyOK(r)
  BY Zenon, <1>0, HalvesOK
<1>3. CASE Verdict(c) /\ UNCHANGED ct
  BY Zenon, <1>0, <1>3, FrameEnds
<1>4. CASE Put(c, r) /\ Step(c, "installfwd")
  <2> DEFINE f == Framed(o, "installfwd", o.m, o.todo, o.peer, o.any)
  <2>1. Moved(c, "installfwd", o.m, o.todo, o.peer, o.any)
    BY Zenon, <1>0, <1>1, <1>4, CpuWrites DEF Step
  <2>2. f.pc = "installfwd" /\ f.hook = o.hook /\ f.pkt = o.pkt /\ f.epoch = o.epoch /\ Frame(f)
    BY <1>1, FramedIsFrame
  <2>3. cpu'[c] = f /\ DOMAIN cpu' = DOMAIN cpu /\ \A d \in Cpus \ {c} : cpu'[d] = cpu[d]
    BY Zenon, <2>1 DEF Moved
  <2>4. \A k \in DOMAIN ct' : k \in DOMAIN ct \/ k = r
    BY Zenon, <1>4 DEF Put
  <2> HIDE DEF f, r
  <2>5. FrameOK(f)
    BY Zenon, <1>1, <2>2 DEF FrameOK, Progress
  <2> QED BY Zenon, <1>0, <1>2, <2>3, <2>4, <2>5, PacketMoves
<1> QED BY Zenon, <1>3, <1>4 DEF InstallReverse

LEMMA InstallForwardSafe ==
    ASSUME PInv, NEW c \in Cpus, InstallForward(c)
    PROVE  PacketInv'
<1>0. PacketInv /\ Held /\ cpu[c].pc = "installfwd" /\ Verdict(c)
  BY Zenon DEF PInv, InstallForward
<1>1. KeyOK(KeyOf(c))
  BY Zenon, <1>0, HalvesOK
<1>2. \A k \in DOMAIN ct' : k \in DOMAIN ct \/ k = KeyOf(c)
  BY DEF InstallForward, Put
<1> QED BY Zenon, <1>0, <1>1, <1>2, FrameEnds

LEMMA PacketSafe ==
    ASSUME PInv, NEW c \in Cpus, PacketStep(c)
    PROVE  PacketInv'
  BY Zenon, LookupSafe, CloseSelfSafe, AclMetaSafe, AclRulesSafe, MembersSafe, SgMetaSafe, SgRulesSafe,
     InstallReverseSafe, InstallForwardSafe DEF PacketStep
=============================================================================
