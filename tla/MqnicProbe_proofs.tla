------------------------- MODULE MqnicProbe_proofs -------------------------
(***************************************************************************)
(* Theorems about MqnicProbe, for every device whose memory can be read:   *)
(* that the driver reads each list of register blocks exactly, and that a  *)
(* device that has been probed has all its ports.                          *)
(***************************************************************************)
EXTENDS MqnicProbe, FiniteSetTheorems, TLAPS

-----------------------------------------------------------------------------
(* The inductive invariant                                                 *)

Offset == UNION {DOMAIN device[w] : w \in DOMAIN device}

Task ==
    {<<>>} \union {<<k>> : k \in 1 .. ifCount}
           \union {<<t[1], t[2]>> : t \in (1 .. ifCount) \X (Nat \ {0})}

Types ==
    /\ device \in Devices
    /\ ifCount \in Nat /\ 1 .. ifCount \subseteq DOMAIN device
    /\ task \in Task
    /\ blocks \in Seq(DOMAIN device[Window])
    /\ ports \in Seq([if : 1 .. ifCount, rb : Offset])

Distinct(list) == \A i, j \in DOMAIN list : list[i] = list[j] => i = j

(* The list so far: it begins where the task says, each pointer leads to   *)
(* the next block, and the blocks are in every closed set.                 *)
Follows ==
    /\ Start \in DOMAIN device[Window]
    /\ blocks = <<>> => at = Start
    /\ blocks # <<>> =>
        /\ blocks[1] = Start
        /\ at = device[Window][blocks[Len(blocks)]].next
        /\ at # 0 => at \in DOMAIN device[Window] /\ at \notin ToSet(blocks)
    /\ \A i \in 1 .. Len(blocks) - 1 : device[Window][blocks[i]].next = blocks[i + 1]
    /\ \A S : Closed(Window, Start, S) => ToSet(blocks) \subseteq S

(* The list of the interface whose ports are set up, and the ports it has  *)
(* so far                                                                  *)
InterfaceList(k) ==
    /\ ifBlocks \in Seq(DOMAIN device[k]) /\ Distinct(ifBlocks)
    /\ ToSet(ifBlocks) = Chain(k, CsrOffset)
    /\ Find(k, ifBlocks, "IF_CTRL", 0) # None

PortsOfThis(k, p) ==
    /\ p <= Reg(k, ifBlocks, "IF_CTRL")
    /\ Find(k, ifBlocks, "PORT", p - 1) # None
    /\ Cardinality(PortsOf(k)) = p - 1
    /\ \A i \in PortsOf(k) : \E n \in 1 .. p - 1 :
            ports[i].rb = Find(k, ifBlocks, "PORT", n - 1)

SetUp ==
    /\ \A i \in DOMAIN ports : ports[i].if <= Window
    /\ Len(task) < 2 => \A i \in DOMAIN ports : ports[i].if < Window
    /\ \A k \in 1 .. Window - 1 : Equipped(k)
    /\ Len(task) = 2 => InterfaceList(task[1]) /\ PortsOfThis(task[1], task[2])

IInv ==
    /\ Types
    /\ Distinct(blocks)
    /\ outcome = None => Follows /\ SetUp
    /\ PortsComplete

-----------------------------------------------------------------------------
(* Blocks and lists                                                        *)

(* What find returns stands in the list, after index others of its type.   *)
LEMMA FindIs ==
    ASSUME NEW w, NEW list, NEW type, NEW n, Find(w, list, type, n) # None
    PROVE  \E i \in DOMAIN list :
                /\ Find(w, list, type, n) = list[i]
                /\ device[w][list[i]].type = type
                /\ Before(w, list, type, i) = n
<1> DEFINE hits == {i \in OfType(w, list, type) : Before(w, list, type, i) = n}
<1>1. hits # {} /\ Find(w, list, type, n) = list[CHOOSE i \in hits : TRUE]
  BY DEF Find, Pick
<1>2. (CHOOSE i \in hits : TRUE) \in hits
  BY <1>1
<1> QED  BY <1>1, <1>2 DEF OfType

(* Blocks found at different indices of a list without repetition differ.  *)
LEMMA FindDiffers ==
    ASSUME NEW w, NEW list, NEW type, NEW m, NEW n, Distinct(list), m # n,
           Find(w, list, type, m) # None, Find(w, list, type, n) # None
    PROVE  Find(w, list, type, m) # Find(w, list, type, n)
<1>1. PICK i \in DOMAIN list :
        Find(w, list, type, m) = list[i] /\ Before(w, list, type, i) = m
  BY FindIs
<1>2. PICK j \in DOMAIN list :
        Find(w, list, type, n) = list[j] /\ Before(w, list, type, j) = n
  BY FindIs
<1> QED  BY <1>1, <1>2 DEF Distinct

(* The device does not change, nor what can be found in it.                *)
LEMMA FindStays ==
    ASSUME device' = device, NEW w, NEW list, NEW type, NEW n
    PROVE  Find(w, list, type, n)' = Find(w, list, type, n)
BY DEF Find, Pick, OfType, Before

(* The same for the register of what is found.                             *)
LEMMA RegStays ==
    ASSUME device' = device, NEW w, NEW list, NEW type
    PROVE  Reg(w, list, type)' = Reg(w, list, type)
BY FindStays DEF Reg

(* The same for what the pointers lead to.                                 *)
LEMMA ChainStays ==
    ASSUME device' = device, NEW w, NEW o
    PROVE  Chain(w, o)' = Chain(w, o)
BY DEF Chain, Closed

(* A sequence without repetition has as many members as places.            *)
LEMMA DistinctLength ==
    ASSUME NEW S, NEW list \in Seq(S), Distinct(list)
    PROVE  Cardinality(ToSet(list)) = Len(list)
<1>1. list \in Bijection(1 .. Len(list), ToSet(list))
  BY DEF Distinct, ToSet, Bijection, Injection, Surjection, IsInjective
<1> QED  BY <1>1, FS_CountingElements DEF ExistsBijection

(* A place that is not the last has one after it.                          *)
LEMMA NotLast ==
    ASSUME NEW n \in Nat, NEW i \in 1 .. n, i # n
    PROVE  i \in 1 .. n - 1 /\ i + 1 \in 1 .. n
OBVIOUS

(* A list read to its end is what the pointers lead to.                    *)
LEMMA ListIsChain ==
    ASSUME Types, Follows, blocks # <<>>, at = 0
    PROVE  /\ ToSet(blocks) = Chain(Window, Start)
           /\ device[Window][blocks[Len(blocks)]].next = 0
<1> DEFINE B == ToSet(blocks)
           P(S) == Closed(Window, Start, S)
                    /\ \A T \in SUBSET S : Closed(Window, Start, T) => T = S
<1>1. Len(blocks) \in Nat \ {0} /\ blocks \in [1 .. Len(blocks) -> DOMAIN device[Window]]
  BY DEF Types
<1>2. device[Window][blocks[Len(blocks)]].next = 0 /\ blocks[1] = Start
  BY DEF Follows
<1>3. Closed(Window, Start, B)
  <2>1. Start \in B
    BY <1>1, <1>2 DEF ToSet
  <2>2. ASSUME NEW o \in B, device[Window][o].next # 0
        PROVE  device[Window][o].next \in B
    <3>1. PICK i \in 1 .. Len(blocks) : o = blocks[i]
      BY <1>1 DEF ToSet
    <3>2. i # Len(blocks)
      BY <1>2, <2>2, <3>1
    <3>3. i \in 1 .. Len(blocks) - 1 /\ i + 1 \in 1 .. Len(blocks)
      BY <1>1, <3>1, <3>2, NotLast
    <3>4. device[Window][o].next = blocks[i + 1]
      BY <3>1, <3>3 DEF Follows
    <3> QED  BY <1>1, <3>3, <3>4 DEF ToSet
  <2> QED  BY <2>1, <2>2 DEF Closed
<1>4. B \in SUBSET DOMAIN device[Window] /\ P(B)
  <2>1. \A T : Closed(Window, Start, T) => B \subseteq T
    BY DEF Follows
  <2> QED  BY <1>1, <1>3, <2>1 DEF ToSet
<1>5. \A S : P(S) => S = B
  <2> SUFFICES ASSUME NEW S, P(S) PROVE S = B
    OBVIOUS
  <2>1. B \subseteq S
    BY DEF Follows
  <2> QED  BY <1>3, <2>1
<1>6. Chain(Window, Start) = CHOOSE S \in SUBSET DOMAIN device[Window] : P(S)
  BY DEF Chain
<1> HIDE DEF P, B
<1>7. B = Chain(Window, Start)
  BY <1>4, <1>5, <1>6
<1> QED  BY <1>2, <1>7 DEF B

-----------------------------------------------------------------------------
(* Steps                                                                   *)

(* One list is read on: a block is added that it has not yet.              *)
LEMMA EnumerateStep == IInv /\ Enumerate => IInv'
<1> SUFFICES ASSUME IInv, Enumerate PROVE IInv'
  OBVIOUS
<1> DEFINE M == DOMAIN device[Window]
           next == device[Window][at].next
           n == Len(blocks)
<1>1. /\ outcome = None /\ Follows /\ SetUp
      /\ blocks = <<>> \/ at # 0
      /\ blocks' = Append(blocks, at)
      /\ UNCHANGED <<device, task, ifCount, ifBlocks, ports>>
  BY DEF IInv, Enumerate, Listed
<1>2. /\ blocks \in Seq(M) /\ device \in Devices /\ Distinct(blocks)
      /\ Window \in DOMAIN device
  <2>1. blocks \in Seq(M) /\ device \in Devices /\ Distinct(blocks)
    BY DEF IInv, Types
  <2>2. task \in Task /\ 1 .. ifCount \subseteq DOMAIN device
    BY DEF IInv, Types
  <2>3. Window \in DOMAIN device
    BY <2>1, <2>2, ReadableAssumption DEF Task, Window
  <2> QED  BY <2>1, <2>3
<1>3. at \in M /\ at \notin ToSet(blocks)
  <2>1. CASE blocks = <<>>
    BY <1>1, <2>1 DEF Follows, ToSet
  <2>2. CASE blocks # <<>>
    BY <1>1, <2>2 DEF Follows
  <2> QED  BY <2>1, <2>2
<1>4. Window' = Window /\ Start' = Start
  <2>1. Window' = Window
    BY <1>1 DEF Window
  <2>2. Start' = Start
    BY <1>1, FindStays DEF Start
  <2> QED  BY <2>1, <2>2
<1>5. /\ blocks' \in Seq(M) /\ n \in Nat /\ Len(blocks') = n + 1
      /\ blocks'[n + 1] = at /\ \A i \in 1 .. n : blocks'[i] = blocks[i]
      /\ DOMAIN blocks' = 1 .. n + 1 /\ DOMAIN blocks = 1 .. n
  BY <1>1, <1>2, <1>3
<1>6. Distinct(blocks)'
  <2> SUFFICES ASSUME NEW i \in 1 .. n + 1, NEW j \in 1 .. n + 1, blocks'[i] = blocks'[j]
               PROVE  i = j
    BY <1>5 DEF Distinct
  <2>1. \A l \in 1 .. n : blocks[l] # at
    BY <1>3, <1>5 DEF ToSet
  <2> QED  BY <1>2, <1>5, <2>1 DEF Distinct
<1>7. next \in Nat /\ (next % 4 = 0 => next \in M \union {0})
  BY <1>2, <1>3, DevicesAssumption, ReadableAssumption
<1>8. outcome' = None => Follows'
  <2> SUFFICES ASSUME outcome' = None PROVE Follows'
    OBVIOUS
  <2>1. at' = next /\ (next = 0 \/ (next \in M /\ next \notin ToSet(blocks')))
    <3>1. ~(next # 0 /\ (~Aligned(next) \/ Loop(blocks', next))) /\ at' = next
      BY NeededAssumption DEF Enumerate, Outcome
    <3> QED  BY <1>7, <3>1 DEF Aligned, Loop, ToSet
  <2>2. blocks'[1] = Start
    <3>1. CASE blocks = <<>>
      BY <1>1, <1>5, <3>1 DEF Follows
    <3>2. CASE blocks # <<>>
      BY <1>1, <1>2, <1>5, <3>2 DEF Follows
    <3> QED  BY <3>1, <3>2
  <2>3. ASSUME NEW i \in 1 .. n
        PROVE  device[Window][blocks'[i]].next = blocks'[i + 1]
    <3>1. CASE i = n
      BY <1>1, <1>5, <3>1 DEF Follows
    <3>2. CASE i # n
      <4>1. i \in 1 .. n - 1 /\ i + 1 \in 1 .. n
        BY <1>5, <3>2, NotLast
      <4> QED  BY <1>1, <1>5, <4>1 DEF Follows
    <3> QED  BY <3>1, <3>2
  <2>4. ASSUME NEW S, Closed(Window, Start, S)
        PROVE  ToSet(blocks') \subseteq S
    <3>1. ToSet(blocks) \subseteq S
      BY <1>1, <2>4 DEF Follows
    <3>2. at \in S
      <4>1. CASE blocks = <<>>
        BY <1>1, <2>4, <4>1 DEF Follows, Closed
      <4>2. CASE blocks # <<>>
        <5>1. blocks[n] \in S /\ at = device[Window][blocks[n]].next /\ at # 0
          BY <1>1, <1>2, <1>5, <3>1, <4>2 DEF Follows, ToSet
        <5> QED  BY <2>4, <5>1 DEF Closed
      <4> QED  BY <4>1, <4>2
    <3> QED  BY <1>5, <3>1, <3>2 DEF ToSet
  <2>5. (\A S : Closed(Window, Start, S) => ToSet(blocks) \subseteq S)'
    BY <1>1, <1>4, <2>4 DEF Closed
  <2>6. Start \in M
    BY <1>1 DEF Follows
  <2>7. /\ blocks' # <<>> /\ Len(blocks') - 1 = n
        /\ blocks'[Len(blocks')] = at
    BY <1>5
  <2> QED  BY <1>1, <1>4, <2>1, <2>2, <2>3, <2>5, <2>6, <2>7 DEF Follows
<1>9. SetUp'
  <2>1. \A k : Equipped(k)' <=> Equipped(k)
    BY <1>1, ChainStays DEF Equipped, PortsOf
  <2>2. InterfaceList(task[1])' <=> InterfaceList(task[1])
    BY <1>1, FindStays, ChainStays DEF InterfaceList, Distinct
  <2>3. PortsOfThis(task[1], task[2])' <=> PortsOfThis(task[1], task[2])
    BY <1>1, FindStays, RegStays DEF PortsOfThis, PortsOf
  <2> QED  BY <1>1, <1>4, <2>1, <2>2, <2>3 DEF SetUp
<1>10. Types'
  BY <1>1, <1>4, <1>5 DEF IInv, Types, Task, Offset
<1>11. PortsComplete'
  <2>1. outcome' # "probed"
    BY <1>1, NeededAssumption DEF Enumerate, Outcome
  <2> QED  BY <1>1, <2>1 DEF IInv, PortsComplete, PortsDistinct
<1> QED  BY <1>6, <1>8, <1>9, <1>10, <1>11 DEF IInv

(* What the steps that end a list have in common: the driver goes on with  *)
(* the same device, and what is set up so far is sound.                    *)
Sound ==
    /\ device \in Devices
    /\ ifCount \in Nat /\ 1 .. ifCount \subseteq DOMAIN device
    /\ ports \in Seq([if : 1 .. ifCount, rb : Offset])
    /\ PortsDistinct

(* The members of a sequence.                                              *)
LEMMA ElementType ==
    ASSUME NEW S, NEW list \in Seq(S)
    PROVE  \A i \in DOMAIN list : list[i] \in S
OBVIOUS

(* Each port belongs to one of the interfaces.                             *)
LEMMA PortIn ==
    ASSUME NEW n \in Nat, NEW S, NEW list \in Seq([if : 1 .. n, rb : S])
    PROVE  \A i \in DOMAIN list : list[i].if \in 1 .. n /\ list[i].if \in Nat
<1> SUFFICES ASSUME NEW i \in DOMAIN list PROVE list[i].if \in 1 .. n
  OBVIOUS
<1>1. list[i] \in [if : 1 .. n, rb : S]
  BY ElementType
<1> QED  BY <1>1

(* The same of the ports after a step.                                     *)
LEMMA SoundPorts ==
    ASSUME Sound'
    PROVE  \A i \in DOMAIN ports' : ports'[i].if \in Nat
<1> DEFINE O == Offset'
<1>1. ifCount' \in Nat /\ ports' \in Seq([if : 1 .. ifCount', rb : O])
  BY DEF Sound
<1> HIDE DEF O
<1> QED  BY <1>1, PortIn

(* A step that ends the probing early changes nothing that matters.        *)
LEMMA Ended ==
    ASSUME IInv, device' = device, Sound', task \in Task', NEW how \in Outcome, End(how),
           how = "probed" => \A k \in 1 .. ifCount' : Equipped(k)'
    PROVE  IInv'
<1>1. outcome' = how /\ how # None /\ UNCHANGED <<device, task, at, blocks>>
  BY NeededAssumption DEF End
<1>2. Window' = Window
  BY <1>1 DEF Window
<1>3. Types' /\ Distinct(blocks)'
  BY <1>1, <1>2 DEF IInv, Types, Sound, Distinct
<1>4. PortsComplete'
  BY <1>1 DEF PortsComplete, Sound
<1> QED  BY <1>1, <1>3, <1>4 DEF IInv

(* A list that is begun has no block yet.                                  *)
LEMMA Begun ==
    ASSUME Sound', task' \in Task', blocks' = <<>>, Start' \in DOMAIN device[Window]',
           at' = Start', outcome' # "probed", SetUp'
    PROVE  IInv'
<1>1. Types' /\ Distinct(blocks)'
  BY DEF Types, Sound, Distinct
<1>2. Follows'
  <2>1. ToSet(blocks)' = {}
    BY DEF ToSet
  <2> QED  BY <2>1 DEF Follows
<1>3. PortsComplete'
  BY DEF PortsComplete, Sound
<1> QED  BY <1>1, <1>2, <1>3 DEF IInv

(* The interfaces before the k-th are set up.                              *)
UpTo(k) ==
    /\ \A i \in DOMAIN ports : ports[i].if < k
    /\ \A j \in 1 .. k - 1 : Equipped(j)

(* The driver goes to the next interface, or is done.                      *)
LEMMA BeginInterfaceStep ==
    ASSUME IInv, device' = device, Sound', task \in Task', outcome = None,
           NEW k \in Nat \ {0}, UpTo(k)', BeginInterface(k, ifCount')
    PROVE  IInv'
<1>1. CASE k <= ifCount'
  <2>1. Begin(<<k>>, CsrOffset) /\ k \in 1 .. ifCount'
    BY <1>1 DEF BeginInterface, Sound
  <2>2. task' = <<k>> /\ Len(task') = 1 /\ task'[1] = k /\ task' # <<>> /\ task' \in Task'
    BY <2>1 DEF Begin, Task
  <2>3. Window' = k /\ Start' = CsrOffset
    BY <2>2 DEF Window, Start
  <2>4. CsrOffset \in DOMAIN device'[k]
    BY <2>1, ReadableAssumption DEF Sound
  <2>5. outcome' # "probed"
    BY <2>1, NeededAssumption DEF Begin, Outcome
  <2>6. SetUp'
    <3>1. \A i \in DOMAIN ports' : ports'[i].if < k /\ ports'[i].if <= k
      BY SoundPorts DEF UpTo
    <3> QED  BY <2>2, <2>3, <3>1 DEF SetUp, UpTo
  <2> QED  BY <2>1, <2>2, <2>3, <2>4, <2>5, <2>6, Begun DEF Begin
<1>2. CASE ~(k <= ifCount')
  <2>1. End("probed")
    BY <1>2 DEF BeginInterface
  <2>2. \A j \in 1 .. ifCount' : Equipped(j)'
    <3>1. 1 .. ifCount' \subseteq 1 .. k - 1
      BY <1>2 DEF Sound
    <3> QED  BY <3>1 DEF UpTo
  <2> QED  BY <2>1, <2>2, Ended DEF Outcome
<1> QED  BY <1>1, <1>2

(* The driver goes to the next port of an interface, or is done with it.   *)
LEMMA BeginPortStep ==
    ASSUME IInv, device' = device, ifCount' = ifCount, Sound', outcome = None,
           NEW k \in 1 .. ifCount, NEW p \in Nat \ {0}, BeginPort(k, p, ifBlocks'),
           \A i \in DOMAIN ports' : ports'[i].if <= k,
           \A j \in 1 .. k - 1 : Equipped(j)',
           InterfaceList(k)',
           p - 1 <= Reg(k, ifBlocks', "IF_CTRL"),
           Cardinality(PortsOf(k)') = p - 1,
           \A i \in PortsOf(k)' : \E n \in 1 .. p - 1 :
                ports'[i].rb = Find(k, ifBlocks', "PORT", n - 1)
    PROVE  IInv'
<1> DEFINE o == Find(k, ifBlocks', "IF_CTRL", 0)
<1>1. PICK i \in DOMAIN ifBlocks' : o = ifBlocks'[i] /\ device[k][o].type = "IF_CTRL"
  <2>1. o # None
    BY FindStays DEF InterfaceList
  <2> QED  BY <2>1, FindIs
<1>2. o \in Chain(k, CsrOffset)'
  BY <1>1 DEF InterfaceList, ToSet
<1>3. /\ o \in DOMAIN device[k] /\ device[k][o].reg \in Nat
      /\ device[k][o].reg = Reg(k, ifBlocks', "IF_CTRL")
      /\ device \in Devices /\ k \in DOMAIN device
  <2>1. device \in Devices /\ k \in DOMAIN device
    BY DEF IInv, Types
  <2>2. o \in DOMAIN device[k]
    BY <1>1 DEF InterfaceList
  <2> QED  BY <2>1, <2>2, DevicesAssumption DEF Reg
<1>4. task \in Task'
  BY DEF IInv, Types, Task
<1>5. CASE p > device[k][o].reg
  <2>1. device[k][o].reg = p - 1
    BY <1>3, <1>5
  <2>2. Equipped(k)'
    BY <1>1, <1>2, <2>1 DEF Equipped
  <2>3. UpTo(k + 1)'
    <3>1. \A j \in 1 .. (k + 1) - 1 : j \in 1 .. k - 1 \/ j = k
      OBVIOUS
    <3>2. \A j \in DOMAIN ports' : ports'[j].if \in Nat /\ ports'[j].if < k + 1
      BY SoundPorts
    <3> QED  BY <2>2, <3>1, <3>2 DEF UpTo
  <2>4. BeginInterface(k + 1, ifCount') /\ k + 1 \in Nat \ {0}
    BY <1>3, <1>5 DEF BeginPort
  <2> QED  BY <1>4, <2>3, <2>4, BeginInterfaceStep
<1>6. CASE p <= device[k][o].reg
  <2> DEFINE rb == Find(k, ifBlocks', "PORT", p - 1)
  <2>1. IF rb = None THEN End("missing") ELSE Begin(<<k, p>>, device[k][rb].reg)
    BY <1>3, <1>6 DEF BeginPort
  <2>2. CASE rb = None
    BY <1>4, <2>1, <2>2, Ended DEF Outcome
  <2>3. CASE rb # None
    <3>1. Begin(<<k, p>>, device[k][rb].reg)
      BY <2>1, <2>3
    <3>2. /\ task' = <<k, p>> /\ Len(task') = 2 /\ task'[1] = k /\ task'[2] = p
          /\ task' # <<>> /\ task' \in Task'
      BY <3>1 DEF Begin, Task
    <3>3. Window' = k /\ Start' = device[k][rb].reg
      BY <3>2, FindStays DEF Window, Start
    <3>4. device[k][rb].reg \in DOMAIN device[k]
      <4>1. PICK j \in DOMAIN ifBlocks' : rb = ifBlocks'[j] /\ device[k][rb].type = "PORT"
        BY <2>3, FindIs
      <4>2. rb \in DOMAIN device[k]
        BY <4>1 DEF InterfaceList
      <4> QED  BY <1>3, <4>1, <4>2, ReadableAssumption
    <3>5. outcome' # "probed"
      BY <3>1, NeededAssumption DEF Begin, Outcome
    <3>6. PortsOfThis(k, p)'
      BY <1>3, <1>6, <2>3, FindStays, RegStays DEF PortsOfThis
    <3>7. SetUp'
      BY <3>2, <3>3, <3>6 DEF SetUp
    <3> QED  BY <3>1, <3>2, <3>3, <3>4, <3>5, <3>7, Begun DEF Begin
  <2> QED  BY <2>2, <2>3
<1> QED  BY <1>3, <1>5, <1>6

(* Where the driver stands when it has read a list.                        *)
LEMMA TaskIs ==
    ASSUME Types
    PROVE  /\ Len(task) = 0 => task = <<>> /\ Window = 0
           /\ Len(task) = 1 => \E k \in 1 .. ifCount : task = <<k>> /\ Window = k
           /\ Len(task) = 2 => \E k \in 1 .. ifCount, p \in Nat \ {0} :
                task = <<k, p>> /\ Window = k
<1>1. task \in Task
  BY DEF Types
<1>2. CASE task = <<>>
  BY <1>2 DEF Window
<1>3. ASSUME NEW k \in 1 .. ifCount, task = <<k>>
      PROVE  Len(task) = 1 /\ Window = k
  BY <1>3 DEF Window
<1>4. ASSUME NEW k \in 1 .. ifCount, NEW p \in Nat \ {0}, task = <<k, p>>
      PROVE  Len(task) = 2 /\ Window = k
  BY <1>4 DEF Window
<1>5. \/ task = <<>>
      \/ \E k \in 1 .. ifCount : task = <<k>>
      \/ \E k \in 1 .. ifCount, p \in Nat \ {0} : task = <<k, p>>
  BY <1>1 DEF Task
<1>6. CASE \E k \in 1 .. ifCount : task = <<k>>
  BY <1>3, <1>6
<1>7. CASE \E k \in 1 .. ifCount, p \in Nat \ {0} : task = <<k, p>>
  BY <1>4, <1>7
<1> QED  BY <1>2, <1>5, <1>6, <1>7

(* What holds when a list has been read.                                   *)
LEMMA ListRead ==
    ASSUME IInv, Listed
    PROVE  /\ outcome = None /\ Types /\ Sound /\ SetUp /\ Distinct(blocks)
           /\ ToSet(blocks) = Chain(Window, Start)
           /\ blocks \in Seq(DOMAIN device[Window])
<1>1. outcome = None /\ blocks # <<>> /\ at = 0 /\ Types /\ Follows /\ SetUp
      /\ Distinct(blocks) /\ PortsDistinct
  BY DEF IInv, Listed, PortsComplete
<1>2. Sound /\ blocks \in Seq(DOMAIN device[Window])
  BY <1>1 DEF Types, Sound
<1> QED  BY <1>1, <1>2, ListIsChain

(* The list of the device.                                                 *)
LEMMA DeviceStep == IInv /\ DeviceListed => IInv'
<1> SUFFICES ASSUME IInv, DeviceListed PROVE IInv'
  OBVIOUS
<1>1. /\ Listed /\ UNCHANGED <<device, ifBlocks, ports>> /\ Len(task) = 0
      /\ ifCount' = IF Find(0, blocks, "IF", 0) = None THEN 0 ELSE Reg(0, blocks, "IF")
      /\ IF Find(0, blocks, "FW_ID", 0) = None THEN End("missing")
                                               ELSE BeginInterface(1, ifCount')
  BY DEF DeviceListed
<1>2. /\ outcome = None /\ Types /\ Sound /\ SetUp /\ Distinct(blocks)
      /\ blocks \in Seq(DOMAIN device[Window])
  BY <1>1, ListRead
<1>3. task = <<>> /\ Window = 0
  BY <1>1, <1>2, TaskIs
<1>4. device \in Devices /\ 0 \in DOMAIN device
  BY <1>2, ReadableAssumption DEF Sound
<1>5. ports = <<>>
  <2>1. ports \in Seq([if : 1 .. ifCount, rb : Offset]) /\ ifCount \in Nat
    BY <1>2 DEF Sound
  <2>2. \A i \in DOMAIN ports : ports[i].if \in 1 .. ifCount /\ ports[i].if < 0
    <3>1. \A i \in DOMAIN ports : ports[i].if \in 1 .. ifCount
      <4> DEFINE O == Offset
      <4>1. ports \in Seq([if : 1 .. ifCount, rb : O])
        BY <2>1
      <4> HIDE DEF O
      <4> QED  BY <2>1, <4>1, PortIn
    <3> QED  BY <1>1, <1>2, <1>3, <3>1 DEF SetUp
  <2>3. DOMAIN ports = {}
    BY <2>1, <2>2
  <2> QED  BY <2>1, <2>3
<1>6. ifCount' \in Nat /\ 1 .. ifCount' \subseteq DOMAIN device
  <2>1. CASE Find(0, blocks, "IF", 0) = None
    BY <1>1, <2>1
  <2>2. CASE Find(0, blocks, "IF", 0) # None
    <3> DEFINE o == Find(0, blocks, "IF", 0)
    <3>1. PICK i \in DOMAIN blocks : o = blocks[i] /\ device[0][o].type = "IF"
      BY <2>2, FindIs
    <3>2. o \in DOMAIN device[0]
      BY <1>2, <1>3, <3>1, ElementType
    <3>3. device[0][o].reg \in Nat /\ 1 .. device[0][o].reg \subseteq DOMAIN device
      BY <1>4, <3>1, <3>2, DevicesAssumption, ReadableAssumption
    <3> QED  BY <1>1, <2>2, <3>3 DEF Reg
  <2> QED  BY <2>1, <2>2
<1>7. Sound' /\ task \in Task' /\ UpTo(1)'
  BY <1>1, <1>3, <1>4, <1>5, <1>6 DEF Sound, Task, UpTo, PortsDistinct, ToSet
<1>8. CASE Find(0, blocks, "FW_ID", 0) = None
  BY <1>1, <1>7, <1>8, Ended DEF Outcome
<1>9. CASE Find(0, blocks, "FW_ID", 0) # None
  BY <1>1, <1>2, <1>7, <1>9, BeginInterfaceStep
<1> QED  BY <1>8, <1>9

(* The list of an interface.                                               *)
LEMMA InterfaceStep == IInv /\ InterfaceListed => IInv'
<1> SUFFICES ASSUME IInv, InterfaceListed PROVE IInv'
  OBVIOUS
<1>1. /\ Listed /\ UNCHANGED <<device, ifCount, ports>> /\ Len(task) = 1
      /\ ifBlocks' = blocks
      /\ IF \E t \in Needed : Find(task[1], blocks, t, 0) = None
         THEN End("missing") ELSE BeginPort(task[1], 1, blocks)
  BY DEF InterfaceListed
<1>2. /\ outcome = None /\ Types /\ Sound /\ SetUp /\ Distinct(blocks)
      /\ ToSet(blocks) = Chain(Window, Start)
      /\ blocks \in Seq(DOMAIN device[Window])
  BY <1>1, ListRead
<1>3. PICK k \in 1 .. ifCount : task = <<k>> /\ Window = k
  BY <1>1, <1>2, TaskIs
<1>4. Start = CsrOffset /\ task[1] = k
  BY <1>1, <1>3 DEF Start
<1>5. Sound' /\ task \in Task'
  BY <1>1, <1>2, <1>3 DEF Sound, Task, PortsDistinct, Offset
<1>6. CASE \E t \in Needed : Find(task[1], blocks, t, 0) = None
  BY <1>1, <1>5, <1>6, Ended DEF Outcome
<1>7. CASE ~\E t \in Needed : Find(task[1], blocks, t, 0) = None
  <2>1. BeginPort(k, 1, ifBlocks')
    BY <1>1, <1>4, <1>7
  <2>2. Find(k, blocks, "IF_CTRL", 0) # None
    BY <1>4, <1>7, NeededAssumption
  <2>3. InterfaceList(k)'
    BY <1>1, <1>2, <1>3, <1>4, <2>2, FindStays, ChainStays DEF InterfaceList, Distinct
  <2>4. \A i \in DOMAIN ports' : ports'[i].if \in Nat /\ ports'[i].if < k
    BY <1>1, <1>2, <1>3, <1>5, SoundPorts DEF SetUp
  <2>5. k \in Nat
    BY <1>2, <1>3 DEF Sound
  <2>6. PortsOf(k)' = {}
    BY <2>4, <2>5 DEF PortsOf
  <2>7. \A j \in 1 .. k - 1 : Equipped(j)'
    <3>1. \A j : Equipped(j)' <=> Equipped(j)
      BY <1>1, ChainStays DEF Equipped, PortsOf
    <3> QED  BY <1>2, <1>3, <3>1 DEF SetUp
  <2>8. 1 - 1 <= Reg(k, ifBlocks', "IF_CTRL")
    <3> DEFINE o == Find(k, blocks, "IF_CTRL", 0)
    <3>1. o \in DOMAIN device[k]
      BY <1>2, <1>3, <2>2, FindIs, ElementType
    <3>2. device \in Devices /\ k \in DOMAIN device
      BY <1>2 DEF Sound
    <3>3. device[k][o].reg \in Nat
      BY <3>1, <3>2, DevicesAssumption
    <3> QED  BY <1>1, <3>3 DEF Reg
  <2>9. Cardinality(PortsOf(k)') = 1 - 1
    BY <2>6, FS_EmptySet
  <2>10. \A i \in DOMAIN ports' : ports'[i].if <= k
    BY <2>4, <2>5
  <2>11. \A i \in PortsOf(k)' : \E n \in 1 .. 1 - 1 :
            ports'[i].rb = Find(k, ifBlocks', "PORT", n - 1)
    BY <2>6
  <2> QED
    BY <1>1, <1>2, <1>5, <2>1, <2>3, <2>7, <2>8, <2>9, <2>10,
       <2>11, BeginPortStep
<1> QED  BY <1>6, <1>7

(* The list of a port.                                                     *)
LEMMA PortStep == IInv /\ PortListed => IInv'
<1> SUFFICES ASSUME IInv, PortListed PROVE IInv'
  OBVIOUS
<1>1. Listed /\ UNCHANGED <<device, ifCount, ifBlocks>> /\ Len(task) = 2
  BY DEF PortListed
<1>2. outcome = None /\ Types /\ Sound /\ SetUp
  BY <1>1, ListRead
<1>3. PICK k \in 1 .. ifCount, p \in Nat \ {0} : task = <<k, p>> /\ Window = k
  BY <1>1, <1>2, TaskIs
<1> DEFINE rb == Find(k, ifBlocks, "PORT", p - 1)
           port == [if |-> k, rb |-> rb]
           n == Len(ports)
<1>4. task[1] = k /\ task[2] = p /\ k \in Nat \ {0} /\ p \in Nat \ {0}
  BY <1>2, <1>3 DEF Sound
<1>5. InterfaceList(k) /\ PortsOfThis(k, p)
  BY <1>1, <1>2, <1>4 DEF SetUp
<1>6. CASE Find(k, blocks, "PORT_CTRL", 0) = None
  <2>1. End("missing") /\ UNCHANGED ports
    BY <1>4, <1>6 DEF PortListed
  <2>2. Sound' /\ task \in Task'
    BY <1>1, <1>2, <1>3, <2>1 DEF Sound, Task, PortsDistinct, Offset
  <2> QED  BY <1>1, <2>1, <2>2, Ended DEF Outcome
<1>7. CASE Find(k, blocks, "PORT_CTRL", 0) # None
  <2>1. ports' = Append(ports, port) /\ BeginPort(k, p + 1, ifBlocks)
    BY <1>4, <1>7 DEF PortListed
  <2>2. PICK i \in DOMAIN ifBlocks : rb = ifBlocks[i] /\ device[k][rb].type = "PORT"
    BY <1>5, FindIs DEF PortsOfThis
  <2>3. rb \in DOMAIN device[k] /\ k \in DOMAIN device
    BY <1>2, <1>5, <2>2, ElementType DEF InterfaceList, Sound
  <2>4. port \in [if : 1 .. ifCount, rb : Offset]
    BY <2>3 DEF Offset
  <2>5. /\ ports' \in Seq([if : 1 .. ifCount, rb : Offset])
        /\ n \in Nat /\ DOMAIN ports = 1 .. n /\ DOMAIN ports' = 1 .. n + 1
        /\ ports'[n + 1] = port /\ \A j \in 1 .. n : ports'[j] = ports[j]
    <3> DEFINE R == [if : 1 .. ifCount, rb : Offset]
    <3>1. ports \in Seq(R) /\ port \in R
      BY <1>2, <2>4 DEF Sound
    <3> HIDE DEF R, port
    <3>2. /\ Append(ports, port) \in Seq(R) /\ n \in Nat /\ DOMAIN ports = 1 .. n
          /\ DOMAIN Append(ports, port) = 1 .. n + 1
          /\ Append(ports, port)[n + 1] = port
          /\ \A j \in 1 .. n : Append(ports, port)[j] = ports[j]
      BY <3>1
    <3> QED  BY <2>1, <3>2 DEF R
  <2>6. port.if = k /\ port.rb = rb
    OBVIOUS
  <2>7. \A j \in PortsOf(k) : ports[j].rb # rb
    <3> SUFFICES ASSUME NEW j \in PortsOf(k), ports[j].rb = rb PROVE FALSE
      OBVIOUS
    <3>1. PICK m \in 1 .. p - 1 : ports[j].rb = Find(k, ifBlocks, "PORT", m - 1)
      BY <1>5 DEF PortsOfThis
    <3>2. m - 1 # p - 1
      BY <1>4, <3>1
    <3> QED  BY <1>5, <3>1, <3>2, FindDiffers DEF InterfaceList, PortsOfThis
  <2>8. PortsDistinct'
    <3>1. \A j \in 1 .. n : ports[j].if = k => ports[j].rb # rb
      BY <2>5, <2>7 DEF PortsOf
    <3>2. ASSUME NEW i1 \in 1 .. n + 1, NEW i2 \in 1 .. n + 1,
                 ports'[i1].if = ports'[i2].if, ports'[i1].rb = ports'[i2].rb
          PROVE  i1 = i2
      <4>1. (i1 \in 1 .. n \/ i1 = n + 1) /\ (i2 \in 1 .. n \/ i2 = n + 1)
        BY <2>5
      <4>2. CASE i1 \in 1 .. n /\ i2 \in 1 .. n
        BY <1>2, <2>5, <3>2, <4>2 DEF Sound, PortsDistinct
      <4>3. CASE i1 \in 1 .. n /\ i2 = n + 1
        BY <2>5, <2>6, <3>1, <3>2, <4>3
      <4>4. CASE i1 = n + 1 /\ i2 \in 1 .. n
        BY <2>5, <2>6, <3>1, <3>2, <4>4
      <4> QED  BY <4>1, <4>2, <4>3, <4>4
    <3>3. ASSUME NEW j \in 1 .. n + 1
          PROVE  device[ports'[j].if][ports'[j].rb].type = "PORT"
      <4>1. CASE j \in 1 .. n
        BY <1>2, <2>5, <4>1 DEF Sound, PortsDistinct, ToSet
      <4>2. CASE j = n + 1
        BY <2>2, <2>5, <2>6, <4>2
      <4> QED  BY <2>5, <4>1, <4>2
    <3> QED  BY <1>1, <2>5, <3>2, <3>3 DEF PortsDistinct, ToSet
  <2>9. Sound'
    BY <1>1, <1>2, <2>5, <2>8 DEF Sound, Offset
  <2>10. PortsOf(k)' = PortsOf(k) \union {n + 1}
    BY <2>5, <2>6 DEF PortsOf
  <2>11. Cardinality(PortsOf(k)') = (p + 1) - 1
    <3>1. PortsOf(k) \subseteq 1 .. n /\ n + 1 \notin PortsOf(k)
      BY <2>5 DEF PortsOf
    <3>2. IsFiniteSet(PortsOf(k))
      <4>1. IsFiniteSet(1 .. n)
        BY <2>5, FS_Interval
      <4> QED  BY <3>1, <4>1, FS_Subset
    <3>3. Cardinality(PortsOf(k)) = p - 1
      BY <1>5 DEF PortsOfThis
    <3> QED  BY <1>4, <2>10, <3>1, <3>2, <3>3, FS_AddElement
  <2>12. \A j : j # k => PortsOf(j)' = PortsOf(j)
    BY <2>5, <2>6 DEF PortsOf
  <2>13. \A j \in 1 .. k - 1 : Equipped(j)'
    <3>1. \A j \in 1 .. k - 1 : Equipped(j) /\ j # k
      BY <1>2, <1>3, <1>4 DEF SetUp
    <3> QED  BY <1>1, <2>12, <3>1, ChainStays DEF Equipped
  <2>14. \A j \in DOMAIN ports' : ports'[j].if <= k
    <3>1. \A j \in 1 .. n : ports[j].if <= k
      BY <1>2, <1>3, <2>5 DEF SetUp
    <3>2. k <= k
      BY <1>4
    <3> QED  BY <2>5, <2>6, <3>1, <3>2
  <2>15. InterfaceList(k)'
    BY <1>1, <1>5, FindStays, ChainStays DEF InterfaceList, Distinct
  <2>16. (p + 1) - 1 <= Reg(k, ifBlocks', "IF_CTRL")
    BY <1>1, <1>4, <1>5 DEF PortsOfThis
  <2>17. ASSUME NEW j \in PortsOf(k)'
         PROVE  \E m \in 1 .. (p + 1) - 1 :
                    ports'[j].rb = Find(k, ifBlocks', "PORT", m - 1)
    <3>1. CASE j \in PortsOf(k)
      <4>1. PICK m \in 1 .. p - 1 : ports[j].rb = Find(k, ifBlocks, "PORT", m - 1)
        BY <1>5, <3>1 DEF PortsOfThis
      <4>2. m \in 1 .. (p + 1) - 1
        BY <1>4, <4>1
      <4>3. ports'[j] = ports[j]
        BY <2>5, <3>1 DEF PortsOf
      <4> QED  BY <1>1, <4>1, <4>2, <4>3
    <3>2. CASE j = n + 1
      <4>1. p \in 1 .. (p + 1) - 1 /\ ports'[j].rb = rb
        BY <1>4, <2>5, <2>6, <3>2
      <4> QED  BY <1>1, <4>1
    <3> QED  BY <2>10, <2>17, <3>1, <3>2
  <2>18. BeginPort(k, p + 1, ifBlocks') /\ p + 1 \in Nat \ {0}
    BY <1>1, <1>4, <2>1
  <2> QED
    BY <1>1, <1>2, <1>3, <2>9, <2>11, <2>13, <2>14, <2>15, <2>16, <2>17, <2>18,
       BeginPortStep
<1> QED  BY <1>6, <1>7

-----------------------------------------------------------------------------
(* Theorems                                                                *)

(* Nothing has been read when the driver begins.                           *)
LEMMA IInvInit == Init => IInv
<1> SUFFICES ASSUME Init PROVE IInv
  OBVIOUS
<1>1. Window = 0 /\ Start = 0 /\ Len(task) = 0
  BY DEF Init, Window, Start
<1>2. device \in Devices /\ 0 \in DOMAIN device[0]
  BY ReadableAssumption DEF Init
<1>3. Types
  BY <1>1, <1>2 DEF Init, Types, Task
<1>4. Follows
  BY <1>1, <1>2 DEF Init, Follows, ToSet
<1>5. SetUp
  BY <1>1 DEF Init, SetUp
<1>6. PortsComplete
  <2>1. PortsDistinct
    BY DEF Init, PortsDistinct, ToSet
  <2> QED  BY <2>1, NeededAssumption DEF Init, PortsComplete, Outcome
<1> QED  BY <1>3, <1>4, <1>5, <1>6 DEF Init, IInv, Distinct

(* Steps that change nothing.                                              *)
LEMMA IInvStutters == IInv /\ UNCHANGED vars => IInv'
<1> SUFFICES ASSUME IInv, UNCHANGED vars PROVE IInv'
  OBVIOUS
<1>1. UNCHANGED <<device, task, at, blocks, ifCount, ifBlocks, ports, outcome>>
  BY DEF vars
<1>2. Window' = Window /\ Start' = Start
  BY <1>1, FindStays DEF Window, Start
<1>3. Types' /\ Distinct(blocks)'
  BY <1>1, <1>2 DEF IInv, Types, Task, Offset, Distinct
<1>4. \A k : Equipped(k)' <=> Equipped(k)
  BY <1>1, ChainStays DEF Equipped, PortsOf
<1>5. PortsComplete'
  BY <1>1, <1>4 DEF IInv, PortsComplete, PortsDistinct
<1>6. Follows' <=> Follows
  BY <1>1, <1>2 DEF Follows, Closed
<1>7. InterfaceList(task[1])' <=> InterfaceList(task[1])
  BY <1>1, FindStays, ChainStays DEF InterfaceList, Distinct
<1>8. PortsOfThis(task[1], task[2])' <=> PortsOfThis(task[1], task[2])
  BY <1>1, FindStays, RegStays DEF PortsOfThis, PortsOf
<1>9. SetUp' <=> SetUp
  BY <1>1, <1>2, <1>4, <1>7, <1>8 DEF SetUp
<1> QED  BY <1>1, <1>3, <1>5, <1>6, <1>9 DEF IInv

(* The invariant is inductive.                                             *)
LEMMA IInvAlways == Spec => []IInv
<1>1. IInv /\ [Next]_vars => IInv'
  BY EnumerateStep, DeviceStep, InterfaceStep, PortStep, IInvStutters DEF Next
<1> QED  BY <1>1, IInvInit, PTL DEF Spec

(* Whatever the device is, a list that has been read to its end holds      *)
(* exactly the blocks that its pointers lead to, and no block is read      *)
(* twice (enumerate_reg_blocks).                                           *)
THEOREM ListsReadExactly == Spec => []ListsExact
<1>1. IInv => ListsExact
  <2> SUFFICES ASSUME IInv PROVE ListsExact
    OBVIOUS
  <2>1. ASSUME Listed
        PROVE  /\ ToSet(blocks) = Chain(Window, Start)
               /\ device[Window][blocks[Len(blocks)]].next = 0
    BY <2>1, ListIsChain DEF IInv, Listed
  <2>2. Cardinality(ToSet(blocks)) = Len(blocks)
    BY DistinctLength DEF IInv, Types
  <2> QED  BY <2>1, <2>2 DEF ListsExact
<1> QED  BY <1>1, IInvAlways, PTL

(* Whatever the device is, each port that the driver sets up has a block   *)
(* of its own, and once the device has been probed each interface has as   *)
(* many ports as its control block says (Driver.init_common,               *)
(* Interface.init, RegBlockList.find).                                     *)
THEOREM PortsFound == Spec => []PortsComplete
<1>1. IInv => PortsComplete
  BY DEF IInv
<1> QED  BY <1>1, IInvAlways, PTL
=============================================================================
