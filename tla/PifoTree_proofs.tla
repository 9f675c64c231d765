--------------------------- MODULE PifoTree_proofs ---------------------------
(***************************************************************************)
(* The PIFO tree for any number of ways and levels.  Operations that     *)
(* only the root can refuse run down the levels as waves that never      *)
(* meet; while they run, each counter is off by what is on its way       *)
(* between two levels, and by nothing else; hence the empty flag is      *)
(* right whenever it is used, and the tree is a heap with exact counters *)
(* whenever it is quiet.                                                 *)
(***************************************************************************)
EXTENDS PifoTree, FiniteSetTheorems, WellFoundedInduction, TLAPS

-----------------------------------------------------------------------------
(* Nodes and ways                                                          *)

(* The children of a node are nodes, and a node is the child of one way.   *)
LEMMA ChildIn ==
    ASSUME NEW l \in Level, NEW a \in Addr(l), NEW w \in Way
    PROVE  /\ ChildAddr(a, w) \in Addr(l + 1)
           /\ l < Levels => l + 1 \in Level /\ <<l + 1, ChildAddr(a, w)>> \in Node
<1>1. l \in Nat /\ l >= 1
  BY LevelsAssumption DEF Level
<1>2. a \in Seq(Way) /\ Len(a) = l - 1
  BY <1>1 DEF Addr
<1>3. /\ Append(a, w) \in Seq(Way) /\ Len(Append(a, w)) = l
  BY <1>1, <1>2
<1>4. Append(a, w) \in [1 .. l -> Way]
  <2>1. PICK s : s = Append(a, w)
    OBVIOUS
  <2>2. s \in Seq(Way) /\ Len(s) = l
    BY <1>3, <2>1
  <2>3. s \in [1 .. l -> Way]
    BY <2>2
  <2> QED  BY <2>1, <2>3
<1>5. ChildAddr(a, w) \in Addr(l + 1)
  BY <1>1, <1>4 DEF ChildAddr, Addr
<1> QED  BY <1>1, <1>5, LevelsAssumption DEF Node, Level

(* Different ways lead to different nodes.                                 *)
LEMMA ChildOnce ==
    ASSUME NEW l \in Level, NEW a \in Addr(l), NEW w \in Way,
           NEW b \in Addr(l), NEW v \in Way, ChildAddr(a, w) = ChildAddr(b, v)
    PROVE  a = b /\ w = v
BY LevelsAssumption DEF Addr, ChildAddr, Level

(* What nodes are.                                                         *)
LEMMA Nodes ==
    /\ 1 \in Level /\ <<>> \in Addr(1) /\ Root \in Node
    /\ \A l \in Level : \A a \in Addr(l) : <<l, a>> \in Node
    /\ \A n \in Node : n[1] \in Level /\ n[2] \in Addr(n[1]) /\ n = <<n[1], n[2]>>
    /\ \A a \in Addr(1) : a = <<>>
<1>1. 1 \in Level
  BY LevelsAssumption DEF Level
<1>2. <<>> \in Addr(1)
  BY DEF Addr
<1>3. \A l \in Level : \A a \in Addr(l) : <<l, a>> \in Node
  BY DEF Node
<1>4. \A a \in Addr(1) : a = <<>>
  BY DEF Addr
<1>5. \A n \in Node : n[1] \in Level /\ n[2] \in Addr(n[1]) /\ n = <<n[1], n[2]>>
  BY DEF Node
<1> QED  BY <1>1, <1>2, <1>3, <1>4, <1>5 DEF Root

(* A set of numbers has a least one.                                       *)
LEMMA Smallest ==
    ASSUME NEW T \in SUBSET Nat, T # {}
    PROVE  \E x \in T : \A y \in T : x <= y
<1> DEFINE R == OpToRel(<, Nat)
<1>1. PICK x \in T : \A y \in T : ~(<<y, x>> \in R)
  <2> HIDE DEF R
  <2>1. IsWellFoundedOn(R, Nat)
    BY NatLessThanWellFounded DEF R
  <2> QED  BY <2>1, WFMin
<1>2. \A y \in T : ~(y < x)
  BY <1>1 DEF OpToRel
<1> QED  BY <1>2

(* Of the ways whose key is least the lowest is found.                     *)
LEMMA LeastIs ==
    ASSUME NEW key \in [Way -> Nat]
    PROVE  /\ LeastWay(key) \in Way
           /\ \A v \in Way : key[LeastWay(key)] <= key[v]
<1> DEFINE keys == {key[w] : w \in Way}
<1>1. 0 \in Way
  BY WaysAssumption DEF Way
<1>2. PICK r \in keys : \A y \in keys : r <= y
  <2>1. keys \in SUBSET Nat /\ keys # {}
    BY <1>1
  <2> HIDE DEF keys
  <2> QED  BY <2>1, Smallest
<1> DEFINE least == {w \in Way : key[w] = r}
<1>3. PICK w \in least : \A y \in least : w <= y
  <2>1. least \in SUBSET Nat /\ least # {}
    BY <1>2, WaysAssumption DEF Way
  <2> HIDE DEF least
  <2> QED  BY <2>1, Smallest
<1>4. \A v \in Way : key[w] < key[v] \/ (key[w] = key[v] /\ w <= v)
  <2> SUFFICES ASSUME NEW v \in Way
               PROVE  key[w] < key[v] \/ (key[w] = key[v] /\ w <= v)
    OBVIOUS
  <2>1. key[w] = r /\ r <= key[v] /\ r \in Nat /\ key[v] \in Nat
    BY <1>2, <1>3
  <2>2. CASE r = key[v]
    BY <1>3, <2>1, <2>2
  <2>3. CASE r < key[v]
    BY <2>1, <2>3
  <2> QED  BY <2>1, <2>2, <2>3
<1>5. LeastWay(key) \in Way
      /\ \A v \in Way : key[LeastWay(key)] < key[v]
                        \/ (key[LeastWay(key)] = key[v] /\ LeastWay(key) <= v)
  <2>1. w \in Way
    BY <1>3
  <2> QED  BY <1>4, <2>1 DEF LeastWay
<1> QED  BY <1>5

-----------------------------------------------------------------------------
(* Counters                                                                *)

NodeType == [Way -> [word : Word \union {EmptyWord}, cnt : Nat]]
Total(node) == Cardinality(Counted(node))

(* What counters that are bounded count is a number.                       *)
LEMMA TotalNat ==
    ASSUME NEW node \in NodeType, NEW k \in Nat, \A v \in Way : node[v].cnt <= k
    PROVE  /\ IsFiniteSet(Counted(node)) /\ Total(node) \in Nat
           /\ Total(node) = 0 <=> \A v \in Way : node[v].cnt = 0
<1>1. \A v \in Way : node[v].cnt \in Nat
  BY DEF NodeType
<1>2. IsFiniteSet(Way) /\ IsFiniteSet(1 .. k)
  BY FS_Interval, WaysAssumption DEF Way
<1>3. IsFiniteSet(Way \X (1 .. k))
  BY <1>2, FS_Product
<1>4. Counted(node) \in SUBSET (Way \X (1 .. k))
  BY <1>1 DEF Counted
<1>5. IsFiniteSet(Counted(node)) /\ Total(node) \in Nat
  BY <1>3, <1>4, FS_Subset, FS_CardinalityType DEF Total
<1>6. Total(node) = 0 <=> Counted(node) = {}
  BY <1>5, FS_EmptySet DEF Total
<1>7. Counted(node) = {} <=> \A v \in Way : node[v].cnt = 0
  <2>1. ASSUME Counted(node) = {}, NEW v \in Way PROVE node[v].cnt = 0
    <3>1. <<v, 1>> \notin Counted(node)
      BY <2>1
    <3>2. 1 \notin 1 .. node[v].cnt
      BY <3>1 DEF Counted
    <3> QED  BY <1>1, <3>2
  <2>2. ASSUME \A v \in Way : node[v].cnt = 0 PROVE Counted(node) = {}
    BY <2>2 DEF Counted
  <2> QED  BY <2>1, <2>2
<1> QED  BY <1>5, <1>6, <1>7

(* A counter that goes up.                                                 *)
LEMMA TotalMore ==
    ASSUME NEW node \in NodeType, NEW k \in Nat, \A v \in Way : node[v].cnt <= k,
           NEW w \in Way, NEW new \in NodeType, new[w].cnt = node[w].cnt + 1,
           \A v \in Way : v # w => new[v] = node[v]
    PROVE  Total(new) = Total(node) + 1
<1> DEFINE c == node[w].cnt + 1
<1>1. \A v \in Way : node[v].cnt \in Nat /\ new[v].cnt \in Nat
  BY DEF NodeType
<1>2. c \in Nat
  BY <1>1
<1>3. Counted(new) = Counted(node) \union {<<w, c>>}
  <2>1. \A v \in Way, i \in Nat : <<v, i>> \in Counted(new) <=> i \in 1 .. new[v].cnt
    BY DEF Counted
  <2>2. \A v \in Way, i \in Nat : <<v, i>> \in Counted(node) <=> i \in 1 .. node[v].cnt
    BY DEF Counted
  <2>3. Counted(new) \in SUBSET (Way \X Nat) /\ Counted(node) \in SUBSET (Way \X Nat)
    BY DEF Counted
  <2>4. \A v \in Way, i \in Nat :
            <<v, i>> \in Counted(new) <=> <<v, i>> \in Counted(node) \/ (v = w /\ i = c)
    <3> SUFFICES ASSUME NEW v \in Way, NEW i \in Nat
                 PROVE  <<v, i>> \in Counted(new)
                            <=> <<v, i>> \in Counted(node) \/ (v = w /\ i = c)
      OBVIOUS
    <3>1. CASE v = w
      <4>1. i \in 1 .. new[v].cnt <=> i \in 1 .. node[v].cnt \/ i = c
        BY <1>1, <3>1
      <4> QED  BY <2>1, <2>2, <3>1, <4>1
    <3>2. CASE v # w
      BY <2>1, <2>2, <3>2
    <3> QED  BY <3>1, <3>2
  <2>5. <<w, c>> \in Way \X Nat
    BY <1>2
  <2> HIDE DEF c
  <2>6. ASSUME NEW x PROVE x \in Counted(new) <=> x \in Counted(node) \/ x = <<w, c>>
    <3>1. CASE x \in Way \X Nat
      <4>1. PICK v \in Way, i \in Nat : x = <<v, i>>
        BY <3>1
      <4> QED  BY <2>4, <4>1
    <3>2. CASE x \notin Way \X Nat
      BY <2>3, <2>5, <3>2
    <3> QED  BY <3>1, <3>2
  <2> QED  BY <2>6
<1>4. <<w, c>> \notin Counted(node)
  BY <1>1 DEF Counted
<1>5. IsFiniteSet(Counted(node))
  BY TotalNat
<1> HIDE DEF c
<1> QED  BY <1>3, <1>4, <1>5, FS_AddElement DEF Total

(* A counter that goes down.                                               *)
LEMMA TotalLess ==
    ASSUME NEW node \in NodeType, NEW k \in Nat, \A v \in Way : node[v].cnt <= k,
           NEW w \in Way, node[w].cnt > 0, NEW new \in NodeType,
           new[w].cnt = node[w].cnt - 1,
           \A v \in Way : v # w => new[v] = node[v]
    PROVE  Total(new) = Total(node) - 1
<1>1. \A v \in Way : node[v].cnt \in Nat /\ new[v].cnt \in Nat
  BY DEF NodeType
<1>2. \A v \in Way : new[v].cnt <= k
  <2> SUFFICES ASSUME NEW v \in Way PROVE new[v].cnt <= k
    OBVIOUS
  <2>1. node[v].cnt <= k /\ node[v].cnt \in Nat /\ new[v].cnt \in Nat
    BY <1>1
  <2>2. v = w \/ new[v].cnt = node[v].cnt
    OBVIOUS
  <2> QED  BY <2>1, <2>2
<1>3. node[w].cnt = new[w].cnt + 1
  BY <1>1
<1>4. Total(node) = Total(new) + 1
  BY <1>2, <1>3, TotalMore
<1>5. Total(new) \in Nat
  BY <1>2, TotalNat
<1> QED  BY <1>4, <1>5

(* Counters that are full.                                                 *)
LEMMA TotalFull ==
    ASSUME NEW node \in NodeType, NEW k \in Nat, \A v \in Way : node[v].cnt <= k,
           NEW m \in Nat, \A v \in Way : m <= node[v].cnt
    PROVE  Ways * m <= Total(node)
<1>1. \A v \in Way : node[v].cnt \in Nat
  BY DEF NodeType
<1>2. IsFiniteSet(Way) /\ Cardinality(Way) = Ways
  BY FS_Interval, WaysAssumption DEF Way
<1>3. IsFiniteSet(1 .. m) /\ Cardinality(1 .. m) = m
  BY FS_Interval
<1>4. Cardinality(Way \X (1 .. m)) = Ways * m
  BY <1>2, <1>3, FS_Product
<1>5. Way \X (1 .. m) \in SUBSET Counted(node)
  BY <1>1 DEF Counted
<1>6. IsFiniteSet(Counted(node))
  BY TotalNat
<1>7. Cardinality(Way \X (1 .. m)) <= Cardinality(Counted(node))
  BY <1>5, <1>6, FS_Subset
<1> QED  BY <1>4, <1>7 DEF Total

-----------------------------------------------------------------------------
(* Waves                                                                   *)

Free(l) == popStage0[l] = None /\ popStage1[l] = None /\ pushStage[l] = None
OneStage(l) ==
    /\ popStage0[l] # None => popStage1[l] = None /\ pushStage[l] = None
    /\ popStage1[l] # None => pushStage[l] = None

(* The second stage of a pop is one cycle behind the first stage of the    *)
(* level below; an operation that has gone further leaves a free level     *)
(* behind it.                                                              *)
Behind(l) ==
    /\ popStage0[l + 1] # None => popStage1[l] # None
    /\ popStage1[l + 1] # None \/ pushStage[l + 1] # None => Free(l)

Waves ==
    /\ \A l \in Level : OneStage(l) /\ (l < Levels => Behind(l))
    /\ ~Free(1) => ~pushFinish /\ ~popFinish
    /\ respValid => reqPending
    /\ popStage0[1] # None => reqPending /\ ~respValid

(* What a cycle does to the stages, whatever the root accepts.             *)
LEMMA CycleStages ==
    ASSUME Next
    PROVE  /\ ClockLevels
           /\ \E pop \in {<<>>, None}, push \in [addr : {<<>>}, word : Word] \union {None} :
                /\ ClockStages(pop, push)
                /\ pop = None \/ push = None
                /\ pop # None \/ push # None => ~RootBusy
                /\ push = None \/ load < MaxLoad
                /\ pop = None \/ ~PifoEmpty
                /\ push = None => load' = load - Answered
                /\ push # None => load' = load + 1 - Answered
<1>1. None # <<>> /\ \A w \in Word : None # [addr |-> <<>>, word |-> w]
  BY Nodes, NoneAssumption
<1>2. PICK ready \in BOOLEAN :
        \/ ClockPop(ready) \/ (\E w \in Word : ClockPush(w, ready)) \/ ClockIdle(ready)
  BY DEF Next
<1>3. CASE ClockPop(ready)
  <2>1. /\ ClockLevels /\ ClockStages(<<>>, None) /\ ~RootBusy /\ ~PifoEmpty
        /\ load' = load - Answered
    BY <1>3 DEF ClockPop
  <2> QED  BY <1>1, <2>1
<1>4. CASE \E w \in Word : ClockPush(w, ready)
  <2>1. PICK w \in Word : ClockPush(w, ready)
    BY <1>4
  <2>2. /\ ClockLevels /\ ClockStages(None, [addr |-> <<>>, word |-> w])
        /\ ~RootBusy /\ load < MaxLoad /\ load' = load + 1 - Answered
    BY <2>1 DEF ClockPush
  <2>3. PICK push \in [addr : {<<>>}, word : Word] : push = [addr |-> <<>>, word |-> w]
    OBVIOUS
  <2>4. push # None
    BY <1>1, <2>3
  <2>5. ClockStages(None, push)
    BY <2>2, <2>3
  <2> QED  BY <2>2, <2>4, <2>5
<1>5. CASE ClockIdle(ready)
  <2>1. ClockLevels /\ ClockStages(None, None) /\ load' = load - Answered
    BY <1>5 DEF ClockIdle
  <2> QED  BY <2>1
<1> QED  BY <1>2, <1>3, <1>4, <1>5

(* What is in the stages after a cycle.                                    *)
LEMMA NextStages ==
    ASSUME Next
    PROVE  /\ \A l \in Level : popStage1'[l] = popStage0[l]
           /\ \A l \in Level : l < Levels =>
                /\ l + 1 \in Level
                /\ popStage0'[l + 1] = PopRequest(l)
                /\ pushStage'[l + 1] = IF PopRequest(l) # None THEN None ELSE PushRequest(l)
           /\ popStage0'[1] \in {<<>>, None}
           /\ pushStage'[1] \in [addr : {<<>>}, word : Word] \union {None}
           /\ popStage0'[1] = None \/ pushStage'[1] = None
           /\ popStage0'[1] # None \/ pushStage'[1] # None => ~RootBusy
           /\ pushFinish' = (pushStage[1] # None) /\ popFinish' = (popStage1[1] # None)
<1>1. PICK pop \in {<<>>, None}, push \in [addr : {<<>>}, word : Word] \union {None} :
        /\ ClockStages(pop, push)
        /\ pop = None \/ push = None
        /\ pop # None \/ push # None => ~RootBusy
  BY CycleStages
<1>2. ClockLevels
  BY CycleStages
<1>3. popStage0'[1] = pop /\ pushStage'[1] = push
  BY <1>1, Nodes DEF ClockStages
<1>4. \A l \in Level : popStage1'[l] = popStage0[l]
  BY <1>2 DEF ClockLevels
<1>5. ASSUME NEW l \in Level, l < Levels
      PROVE  /\ l + 1 \in Level
             /\ popStage0'[l + 1] = PopRequest(l)
             /\ pushStage'[l + 1] = IF PopRequest(l) # None THEN None ELSE PushRequest(l)
  <2>1. l + 1 \in Level /\ l + 1 # 1 /\ (l + 1) - 1 = l
    BY <1>5, LevelsAssumption DEF Level
  <2> QED  BY <1>1, <2>1 DEF ClockStages
<1> QED  BY <1>1, <1>2, <1>3, <1>4, <1>5 DEF ClockLevels

(* An operation arrives at a level that is free, and it arrives alone.     *)
LEMMA ArrivesAlone ==
    ASSUME Waves, Next, NEW l \in Level, popStage0'[l] # None \/ pushStage'[l] # None
    PROVE  Free(l) /\ (popStage0'[l] = None \/ pushStage'[l] = None)
<1>1. CASE l = 1
  <2>1. ~RootBusy /\ (popStage0'[1] = None \/ pushStage'[1] = None)
    BY <1>1, NextStages
  <2> QED  BY <1>1, <2>1 DEF RootBusy, Free
<1>2. CASE l # 1
  <2>1. PICK m \in Level : m < Levels /\ l = m + 1
    <3>1. l - 1 \in Level /\ l - 1 < Levels /\ l = (l - 1) + 1
      BY <1>2, LevelsAssumption DEF Level
    <3> QED  BY <3>1
  <2>2. /\ popStage0'[l] = PopRequest(m)
        /\ pushStage'[l] = IF PopRequest(m) # None THEN None ELSE PushRequest(m)
    BY <2>1, NextStages
  <2>3. popStage0[m] # None \/ pushStage[m] # None
    BY <2>2 DEF PopRequest, PushRequest
  <2>4. OneStage(m) /\ Behind(m)
    BY <2>1 DEF Waves
  <2> QED  BY <2>1, <2>2, <2>3, <2>4 DEF OneStage, Behind, Free
<1> QED  BY <1>1, <1>2

(* The waves stay apart.                                                   *)
LEMMA WavesKept == Waves /\ [Next]_vars => Waves'
<1>1. ASSUME Waves, UNCHANGED vars PROVE Waves'
  BY <1>1 DEF vars, pipeVars, Waves, OneStage, Behind, Free
<1>2. ASSUME Waves, Next PROVE Waves'
  <2>1. \A l \in Level : popStage0'[l] # None \/ pushStage'[l] # None =>
            Free(l) /\ (popStage0'[l] = None \/ pushStage'[l] = None)
    BY <1>2, ArrivesAlone
  <2>2. \A l \in Level : popStage1'[l] = popStage0[l]
    BY <1>2, NextStages
  <2>3. ASSUME NEW l \in Level PROVE OneStage(l)'
    BY <2>1, <2>2 DEF OneStage, Free
  <2>4. ASSUME NEW l \in Level, l < Levels PROVE Behind(l)'
    <3>1. /\ l + 1 \in Level
          /\ popStage0'[l + 1] # None => popStage0[l] # None
          /\ pushStage'[l + 1] # None => pushStage[l] # None
      BY <1>2, <2>4, NextStages DEF PopRequest, PushRequest
    <3>2. OneStage(l) /\ Behind(l)
      BY <1>2, <2>4 DEF Waves
    <3>3. popStage0'[l + 1] # None => popStage1'[l] # None
      BY <2>2, <3>1
    <3>4. ASSUME popStage1'[l + 1] # None \/ pushStage'[l + 1] # None
          PROVE  Free(l)'
      <4>1. popStage1[l] # None \/ pushStage[l] # None
        BY <2>2, <3>1, <3>2, <3>4 DEF Behind
      <4>2. popStage0'[l] = None /\ pushStage'[l] = None
        BY <2>1, <4>1 DEF Free
      <4>3. popStage0[l] = None
        BY <3>2, <4>1 DEF OneStage
      <4> QED  BY <2>2, <4>2, <4>3 DEF Free
    <3> QED  BY <3>3, <3>4 DEF Behind
  <2>5. ~Free(1)' => ~pushFinish' /\ ~popFinish'
    <3>1. 1 \in Level /\ OneStage(1)
      BY <1>2, Nodes DEF Waves
    <3>2. pushFinish' = (pushStage[1] # None) /\ popFinish' = (popStage1[1] # None)
      BY <1>2, NextStages
    <3> QED  BY <2>1, <2>2, <3>1, <3>2 DEF Free, OneStage
  <2>6. /\ respValid' => reqPending'
        /\ popStage0'[1] # None => reqPending' /\ ~respValid'
    <3>1. (respValid => reqPending) /\ (popStage0[1] # None => reqPending /\ ~respValid)
      BY <1>2 DEF Waves
    <3>2. PICK ready \in BOOLEAN :
            ClockPop(ready) \/ (\E w \in Word : ClockPush(w, ready)) \/ ClockIdle(ready)
      BY <1>2 DEF Next
    <3>3. CASE ClockPop(ready)
      BY <3>1, <3>3 DEF ClockPop, ClockResponse, RootBusy, PopAsked
    <3>4. CASE (\E w \in Word : ClockPush(w, ready)) \/ ClockIdle(ready)
      <4>1. /\ ClockResponse(ready) /\ \E push : ClockStages(None, push)
            /\ reqPending' = (reqPending /\ ~(respValid /\ ready))
        BY <3>4 DEF ClockPush, ClockIdle
      <4>2. popStage0'[1] = None
        BY <4>1, Nodes DEF ClockStages
      <4> QED  BY <3>1, <4>1, <4>2 DEF ClockResponse
    <3> QED  BY <3>2, <3>3, <3>4
  <2> QED  BY <2>3, <2>4, <2>5, <2>6 DEF Waves
<1> QED  BY <1>1, <1>2

(* At first there are none.                                                *)
LEMMA WavesInit == Init => Waves
<1> SUFFICES ASSUME Init PROVE Waves
  OBVIOUS
<1>1. \A l \in Level : Free(l)
  BY DEF Init, Free
<1>2. \A l \in Level : l < Levels => Free(l + 1)
  BY <1>1, LevelsAssumption DEF Level
<1> QED  BY <1>1, <1>2, Nodes DEF Waves, OneStage, Behind, Free, Init

(* The waves stay apart in all states.                                     *)
LEMMA WavesInvariant == Spec => []Waves
BY WavesInit, WavesKept, PTL DEF Spec

(* No level below the root, though it has no handshake, is ever sent an    *)
(* operation while it has one or together with another, and no response is *)
(* overwritten: the root's handshake (PIFO_SRAM_Level_1.sv) is enough for  *)
(* any number of levels.                                                   *)
THEOREM WavesNeverCollide == Spec => []NothingOverrun
<1>1. Waves => NothingOverrun
  <2> SUFFICES ASSUME Waves PROVE NothingOverrun
    OBVIOUS
  <2>1. ASSUME NEW l \in Level PROVE Cardinality(Stages(l)) <= 1
    <3>1. PICK i : Stages(l) \in SUBSET {i}
      <4>1. OneStage(l)
        BY DEF Waves
      <4>2. Stages(l) \in SUBSET {1} \/ Stages(l) \in SUBSET {2} \/ Stages(l) \in SUBSET {3}
        BY <4>1 DEF OneStage, Stages
      <4> QED  BY <4>2
    <3>2. IsFiniteSet({i}) /\ Cardinality({i}) = 1
      BY FS_Singleton
    <3> QED  BY <3>1, <3>2, FS_Subset
  <2>2. ASSUME NEW l \in Level, l > 1,
               PopRequest(l - 1) # None \/ PushRequest(l - 1) # None
        PROVE  /\ Stages(l) = {}
               /\ PopRequest(l - 1) = None \/ PushRequest(l - 1) = None
    <3>1. PICK m : m = l - 1
      OBVIOUS
    <3>2. m \in Level /\ m < Levels /\ l = m + 1
      BY <2>2, <3>1, LevelsAssumption DEF Level
    <3>3. OneStage(m) /\ Behind(m)
      BY <3>2 DEF Waves
    <3>4. popStage0[m] # None \/ pushStage[m] # None
      BY <2>2, <3>1 DEF PopRequest, PushRequest
    <3>5. Free(l) /\ (popStage0[m] = None \/ pushStage[m] = None)
      BY <3>2, <3>3, <3>4 DEF OneStage, Behind, Free
    <3>6. Stages(l) = {}
      BY <3>5 DEF Stages, Free
    <3> QED  BY <3>1, <3>5, <3>6 DEF PopRequest, PushRequest
  <2>3. ~(respValid /\ popStage0[1] # None)
    BY DEF Waves
  <2> QED  BY <2>1, <2>2, <2>3 DEF NothingOverrun
<1> QED  BY <1>1, WavesInvariant, PTL

-----------------------------------------------------------------------------
(* What a push and a pop do to one node                                    *)

Marked(node) == \A v \in Way : node[v].cnt = 0 <=> node[v].word = EmptyWord
Capped(node, k) == \A v \in Way : node[v].cnt <= k
NodeOk(node, k) == node \in NodeType /\ Marked(node) /\ Capped(node, k)

(* Words and their ranks.                                                  *)
LEMMA Ranks ==
    /\ EmptyWord.rank = MaxRank /\ MaxRank \in Nat
    /\ \A x \in Word : x.rank \in Nat /\ x.rank < MaxRank /\ x # EmptyWord
    /\ \A x \in Word \union {EmptyWord} : x.rank \in Nat /\ x.rank <= MaxRank
    /\ \A x \in Word \union {EmptyWord} : x.rank = MaxRank <=> x = EmptyWord
    /\ \A node \in NodeType : \A v \in Way :
         node[v].word \in Word \union {EmptyWord} /\ node[v].cnt \in Nat
<1>1. EmptyWord.rank = MaxRank /\ MaxRank \in Nat
  BY RankAssumption DEF EmptyWord
<1>2. \A x \in Word : x.rank \in Nat /\ x.rank < MaxRank
  BY RankAssumption DEF Word, Rank
<1>3. \A x \in Word : x # EmptyWord
  BY <1>1, <1>2
<1>4. \A node \in NodeType : \A v \in Way :
         node[v].word \in Word \union {EmptyWord} /\ node[v].cnt \in Nat
  BY DEF NodeType
<1>5. \A x \in Word \union {EmptyWord} :
        x.rank \in Nat /\ x.rank <= MaxRank /\ (x.rank = MaxRank <=> x = EmptyWord)
  <2> SUFFICES ASSUME NEW x \in Word \union {EmptyWord}
               PROVE  x.rank \in Nat /\ x.rank <= MaxRank
                      /\ (x.rank = MaxRank <=> x = EmptyWord)
    OBVIOUS
  <2>1. CASE x = EmptyWord
    BY <1>1, <2>1
  <2>2. CASE x \in Word
    BY <1>1, <1>2, <1>3, <2>2
  <2> QED  BY <2>1, <2>2
<1> QED  BY <1>1, <1>2, <1>3, <1>4, <1>5

(* The ways the ports choose.                                              *)
LEMMA Ports ==
    ASSUME NEW node \in NodeType
    PROVE  /\ MinDataPort(node) \in Way /\ MinSubTree(node) \in Way
           /\ \A v \in Way : node[MinDataPort(node)].word.rank <= node[v].word.rank
           /\ \A v \in Way : node[MinSubTree(node)].cnt <= node[v].cnt
<1>1. [w \in Way |-> node[w].word.rank] \in [Way -> Nat]
  BY Ranks
<1>2. [w \in Way |-> node[w].cnt] \in [Way -> Nat]
  BY Ranks
<1>3. PICK ranks : ranks = [w \in Way |-> node[w].word.rank]
  OBVIOUS
<1>4. PICK cnts : cnts = [w \in Way |-> node[w].cnt]
  OBVIOUS
<1>5. /\ LeastWay(ranks) \in Way
      /\ \A v \in Way : ranks[LeastWay(ranks)] <= ranks[v]
  BY <1>1, <1>3, LeastIs
<1>6. /\ LeastWay(cnts) \in Way
      /\ \A v \in Way : cnts[LeastWay(cnts)] <= cnts[v]
  BY <1>2, <1>4, LeastIs
<1>7. MinDataPort(node) = LeastWay(ranks) /\ MinSubTree(node) = LeastWay(cnts)
  BY <1>3, <1>4 DEF MinDataPort, MinSubTree
<1> QED  BY <1>3, <1>4, <1>5, <1>6, <1>7

(* A node with words in it has one in the way a pop takes.                 *)
LEMMA PopFinds ==
    ASSUME NEW k \in Nat, NEW node, NodeOk(node, k)
    PROVE  /\ Total(node) \in Nat
           /\ Total(node) > 0 <=> node[MinDataPort(node)].cnt > 0
           /\ Total(node) = 0 <=> \A v \in Way : node[v].cnt = 0
           /\ Total(node) = 0 => \A v \in Way : node[v].word.rank = MaxRank
<1>1. node \in NodeType /\ Marked(node) /\ \A v \in Way : node[v].cnt <= k
  BY DEF NodeOk, Capped
<1>2. Total(node) \in Nat /\ (Total(node) = 0 <=> \A v \in Way : node[v].cnt = 0)
  BY <1>1, TotalNat
<1>3. /\ MinDataPort(node) \in Way
      /\ \A v \in Way : node[MinDataPort(node)].word.rank <= node[v].word.rank
  BY <1>1, Ports
<1>4. \A v \in Way : node[v].cnt = 0 <=> node[v].word.rank = MaxRank
  BY <1>1, Ranks DEF Marked
<1>5. \A v \in Way : node[v].cnt \in Nat /\ node[v].word.rank \in Nat
                     /\ node[v].word.rank <= MaxRank
  BY <1>1, Ranks
<1>6. ASSUME node[MinDataPort(node)].cnt = 0, NEW v \in Way PROVE node[v].cnt = 0
  <2>1. node[MinDataPort(node)].word.rank = MaxRank
    BY <1>3, <1>4, <1>6
  <2>2. MaxRank <= node[v].word.rank
    BY <1>3, <2>1
  <2>3. node[v].word.rank = MaxRank
    BY <1>5, <2>2, RankAssumption
  <2> QED  BY <1>4, <2>3
<1>7. node[MinDataPort(node)].cnt \in Nat
  BY <1>3, <1>5
<1>8. Total(node) = 0 <=> node[MinDataPort(node)].cnt = 0
  BY <1>2, <1>3, <1>6
<1> QED  BY <1>2, <1>4, <1>7, <1>8

(* A pop: the least word is replaced and its counter goes down.            *)
LEMMA PopNode ==
    ASSUME NEW k \in Nat, NEW node, NodeOk(node, k), Total(node) > 0,
           NEW resp, NEW new,
           node[MinDataPort(node)].cnt = 1 => resp = EmptyWord,
           node[MinDataPort(node)].cnt # 1 => resp \in Word,
           new = [node EXCEPT ![MinDataPort(node)] =
                                 Entry(resp, node[MinDataPort(node)].cnt - 1)]
    PROVE  NodeOk(new, k) /\ Total(new) = Total(node) - 1
<1>1. PICK w \in Way : w = MinDataPort(node)
  BY Ports DEF NodeOk
<1>2. PICK c \in Nat : c = node[w].cnt - 1 /\ c + 1 = node[w].cnt /\ c <= k
  <2>1. node[w].cnt > 0 /\ node[w].cnt \in Nat /\ node[w].cnt <= k
    BY <1>1, PopFinds, Ranks DEF NodeOk, Capped
  <2>2. node[w].cnt - 1 \in Nat /\ (node[w].cnt - 1) + 1 = node[w].cnt
        /\ node[w].cnt - 1 <= k
    BY <2>1
  <2> QED  BY <2>2
<1>3. new = [node EXCEPT ![w] = Entry(resp, c)]
  BY <1>1, <1>2
<1>4. node \in NodeType /\ Marked(node) /\ Capped(node, k)
  BY DEF NodeOk
<1>5. (c = 0 => resp = EmptyWord) /\ (c # 0 => resp \in Word)
  BY <1>1, <1>2
<1>6. new[w].word = resp /\ new[w].cnt = c /\ \A v \in Way : v # w => new[v] = node[v]
  BY <1>3, <1>4 DEF Entry, NodeType
<1>7. Entry(resp, c) \in [word : Word \union {EmptyWord}, cnt : Nat]
  BY <1>5 DEF Entry
<1>8. new \in NodeType
  BY <1>3, <1>4, <1>7 DEF NodeType
<1>9. Marked(new)
  BY <1>4, <1>5, <1>6, Ranks DEF Marked
<1>10. Capped(new, k)
  BY <1>2, <1>4, <1>6 DEF Capped
<1>11. Total(new) = Total(node) - 1
  <2>1. node[w].cnt > 0 /\ new[w].cnt = node[w].cnt - 1
    BY <1>2, <1>6
  <2> QED  BY <1>4, <1>6, <1>8, <2>1, TotalLess DEF Capped
<1> QED  BY <1>8, <1>9, <1>10, <1>11 DEF NodeOk

(* A push: the least used way gets a word and its counter goes up.         *)
LEMMA PushNode ==
    ASSUME NEW k \in Nat, NEW node, NodeOk(node, k), Total(node) < Ways * k,
           NEW word \in Word, NEW new,
           new = [node EXCEPT ![MinSubTree(node)] =
                                 Entry(word, node[MinSubTree(node)].cnt + 1)]
    PROVE  NodeOk(new, k) /\ Total(new) = Total(node) + 1
<1>1. PICK w \in Way : w = MinSubTree(node)
  BY Ports DEF NodeOk
<1>2. PICK c \in Nat : c = node[w].cnt + 1
  <2>1. node[w].cnt \in Nat
    BY Ranks DEF NodeOk
  <2> QED  BY <2>1
<1>3. new = [node EXCEPT ![w] = Entry(word, c)]
  BY <1>1, <1>2
<1>4. node \in NodeType /\ Marked(node) /\ Capped(node, k)
  BY DEF NodeOk
<1>5. new[w].word = word /\ new[w].cnt = c /\ \A v \in Way : v # w => new[v] = node[v]
  BY <1>3, <1>4 DEF Entry, NodeType
<1>6. Entry(word, c) \in [word : Word \union {EmptyWord}, cnt : Nat]
  BY DEF Entry
<1>7. new \in NodeType
  BY <1>3, <1>4, <1>6 DEF NodeType
<1>8. c # 0
  BY <1>2, Ranks, <1>4
<1>9. Marked(new)
  BY <1>4, <1>5, <1>8, Ranks DEF Marked
<1>10. c <= k
  <2>1. node[w].cnt \in Nat /\ node[w].cnt <= k
    BY <1>4, Ranks DEF Capped
  <2>2. CASE node[w].cnt = k
    <3>1. \A v \in Way : k <= node[v].cnt
      BY <1>1, <1>4, <2>2, Ports
    <3>2. Ways * k <= Total(node)
      BY <1>4, <3>1, TotalFull DEF Capped
    <3>3. Ways * k \in Nat /\ Total(node) \in Nat
      BY WaysAssumption, PopFinds
    <3> QED  BY <3>2, <3>3
  <2>3. CASE node[w].cnt # k
    BY <1>2, <2>1, <2>3
  <2> QED  BY <2>2, <2>3
<1>11. Capped(new, k)
  BY <1>4, <1>5, <1>10 DEF Capped
<1>12. Total(new) = Total(node) + 1
  <2>1. new[w].cnt = node[w].cnt + 1
    BY <1>2, <1>5
  <2> QED  BY <1>4, <1>5, <1>7, <2>1, TotalMore DEF Capped
<1> QED  BY <1>7, <1>9, <1>11, <1>12 DEF NodeOk

-----------------------------------------------------------------------------
(* The tree while waves run down it                                        *)

(* A level has room in each way for a word and what the ways below hold.   *)
RoomOf(room) ==
    /\ room \in [Level -> Nat]
    /\ room[Levels] = 1
    /\ \A l \in Level : l < Levels => room[l] = 1 + Ways * room[l + 1]
    /\ MaxLoad <= Ways * room[1]

PushAt(l, a) == pushStage[l] # None /\ pushStage[l].addr = a
PopAt(l, a) == popStage1[l] = a /\ Total(ram[<<l, a>>]) > 0

(* The way w of a node and the node below it.  A word on its way into that *)
(* node counts already, and a word that has just left it no more.          *)
CountOk(cnt, below, push, pop) ==
    /\ cnt = 0 => below = 0 /\ ~push
    /\ cnt # 0 /\ push => cnt = 2 + below
    /\ cnt # 0 /\ pop => cnt = below
    /\ cnt # 0 /\ ~push /\ ~pop => cnt = 1 + below
HeapOk(word, node) == \A v \in Way : word.rank <= node[v].word.rank
EdgeOk(l, a, w) ==
    LET c == ChildAddr(a, w)
        entry == ram[<<l, a>>][w]
        node == ram[<<l + 1, c>>]
    IN  /\ CountOk(entry.cnt, Total(node), PushAt(l + 1, c), PopAt(l + 1, c))
        /\ HeapOk(entry.word, node)
        /\ PushAt(l + 1, c) => entry.word.rank <= pushStage[l + 1].word.rank

StageTypes ==
    \A l \in Level :
        /\ popStage0[l] \in Addr(l) \union {None}
        /\ popStage1[l] \in Addr(l) \union {None}
        /\ pushStage[l] \in [addr : Addr(l), word : Word] \union {None}
NodesOk(room) ==
    /\ ram \in [Node -> NodeType]
    /\ \A l \in Level : \A a \in Addr(l) : NodeOk(ram[<<l, a>>], room[l])

(* The second stage of a pop and the first stage below it work together.   *)
PairOk(l) ==
    popStage1[l] # None =>
        popStage0[l + 1] = ChildAddr(popStage1[l], MinDataPort(ram[<<l, popStage1[l]>>]))
Below == \A l \in Level : l < Levels => PairOk(l) /\ \A a \in Addr(l), w \in Way : EdgeOk(l, a, w)

RootOk ==
    /\ ~pushFinish /\ ~popFinish => rootRead = ram[Root]
    /\ load \in Nat /\ load <= MaxLoad
    /\ pushStage[1] # None => load = Total(ram[Root]) + 1
    /\ popStage1[1] # None => Total(ram[Root]) = load + 1
    /\ pushStage[1] = None /\ popStage1[1] = None => load = Total(ram[Root])
    /\ popStage0[1] # None => load > 0

TreeOk(room) ==
    /\ StageTypes
    /\ NodesOk(room)
    /\ Below
    /\ RootOk

(* A level that works on a node has read what is in it.                    *)
LEMMA ReadIs ==
    ASSUME NEW room, TreeOk(room), Waves, NEW l \in Level, NEW a \in Addr(l), ~Free(l)
    PROVE  Read(l, a) = ram[<<l, a>>]
<1>1. CASE l = 1
  <2>1. ~pushFinish /\ ~popFinish
    BY <1>1 DEF Waves
  <2>2. rootRead = ram[Root]
    BY <2>1 DEF TreeOk, RootOk
  <2>3. a = <<>>
    BY <1>1, Nodes
  <2> QED  BY <1>1, <2>2, <2>3 DEF Read, Root
<1>2. CASE l # 1
  BY <1>2 DEF Read
<1> QED  BY <1>1, <1>2

(* A stage works on one node of its level.                                 *)
LEMMA StageAt ==
    ASSUME StageTypes, NEW l \in Level
    PROVE  /\ None \notin Addr(l)
           /\ popStage0[l] # None => popStage0[l] \in Addr(l)
           /\ popStage1[l] # None => popStage1[l] \in Addr(l)
           /\ pushStage[l] # None => pushStage[l].addr \in Addr(l) /\ pushStage[l].word \in Word
<1>1. None \notin Addr(l) /\ None \notin [addr : Addr(l), word : Word]
  BY NoneAssumption
<1>2. pushStage[l] # None => pushStage[l] \in [addr : Addr(l), word : Word]
  BY DEF StageTypes
<1>3. pushStage[l] # None => pushStage[l].addr \in Addr(l) /\ pushStage[l].word \in Word
  BY <1>2
<1> QED  BY <1>1, <1>3 DEF StageTypes

(* What a cycle writes into a node: what the push at it says, or else what *)
(* the pop at it says, or nothing.                                         *)
LEMMA Written ==
    ASSUME ClockLevels, StageTypes, NEW l \in Level, NEW a \in Addr(l)
    PROVE  /\ PushAt(l, a) =>
                ram'[<<l, a>>] = [ram[<<l, a>>] EXCEPT ![Insertion(l).way] =
                                    Entry(Insertion(l).stays, Insertion(l).cnt)]
           /\ ~PushAt(l, a) /\ (pushStage[l] # None \/ popStage1[l] # a) =>
                ram'[<<l, a>>] = ram[<<l, a>>]
           /\ pushStage[l] = None /\ popStage1[l] = a =>
                LET w == MinDataPort(Read(l, a))
                    cnt == Read(l, a)[w].cnt
                IN  ram'[<<l, a>>] =
                      IF cnt = 0 THEN ram[<<l, a>>]
                      ELSE [ram[<<l, a>>] EXCEPT ![w] =
                              Entry(IF cnt - 1 = 0 THEN EmptyWord ELSE ChildResp(l), cnt - 1)]
<1>1. PICK n \in Node : n = <<l, a>>
  BY Nodes
<1> DEFINE Here == IF Insert(l) # {} THEN Insert(l) ELSE Refill(l)
<1>2. ASSUME NEW x PROVE x \in Writes /\ x.node = n <=> x \in Here /\ x.node = n
  <2>1. ASSUME NEW m \in Level, x \in IF Insert(m) # {} THEN Insert(m) ELSE Refill(m),
               x.node = n
        PROVE  m = l
    <3>1. x.node[1] = m
      BY <2>1 DEF Insert, Refill
    <3> QED  BY <1>1, <2>1, <3>1
  <2> QED  BY <2>1 DEF Writes
<1>3. ram'[n] = IF \E x \in Writes : x.node = n
                  THEN LET x == CHOOSE x \in Writes : x.node = n
                       IN  [ram[n] EXCEPT ![x.way] = x.entry]
                  ELSE ram[n]
  BY DEF ClockLevels
<1>4. ASSUME NEW x, x \in Here, x.node = n, \A y \in Here : y = x
      PROVE  ram'[n] = [ram[n] EXCEPT ![x.way] = x.entry]
  <2>1. \A y : y \in Writes /\ y.node = n <=> y = x
    BY <1>2, <1>4
  <2>2. (CHOOSE y \in Writes : y.node = n) = x
    BY <2>1
  <2> QED  BY <1>3, <2>1, <2>2
<1>5. (\A x \in Here : x.node # n) => ram'[n] = ram[n]
  BY <1>2, <1>3
<1>6. CASE pushStage[l] # None
  <2>1. PICK x : x = [node |-> <<l, pushStage[l].addr>>, way |-> Insertion(l).way,
                      entry |-> Entry(Insertion(l).stays, Insertion(l).cnt)]
    OBVIOUS
  <2>2. Here = {x}
    BY <1>6, <2>1 DEF Insert
  <2>3. x.node = <<l, pushStage[l].addr>> /\ x.way = Insertion(l).way
        /\ x.entry = Entry(Insertion(l).stays, Insertion(l).cnt)
    BY <2>1
  <2> HIDE DEF Here
  <2>4. CASE pushStage[l].addr = a
    BY <1>1, <1>4, <1>6, <2>2, <2>3, <2>4 DEF PushAt
  <2>5. CASE pushStage[l].addr # a
    <3>1. x.node # n
      BY <1>1, <2>3, <2>5
    <3> QED  BY <1>1, <1>5, <1>6, <2>2, <2>5, <3>1 DEF PushAt
  <2> QED  BY <2>4, <2>5
<1>7. CASE pushStage[l] = None
  <2>1. Here = Refill(l)
    BY <1>7 DEF Insert
  <2> HIDE DEF Here
  <2>2. PICK node : node = Read(l, a)
    OBVIOUS
  <2>3. PICK w : w = MinDataPort(node)
    OBVIOUS
  <2>4. PICK cnt : cnt = node[w].cnt
    OBVIOUS
  <2>5. a # None
    BY StageAt
  <2>6. CASE popStage1[l] # a
    <3>1. \A x \in Here : x.node # n
      BY <1>1, <2>1, <2>6 DEF Refill
    <3> QED  BY <1>1, <1>5, <1>7, <2>6, <3>1 DEF PushAt
  <2>7. CASE popStage1[l] = a /\ cnt = 0
    <3>1. Here = {}
      BY <2>1, <2>2, <2>3, <2>4, <2>7 DEF Refill
    <3> QED  BY <1>1, <1>5, <1>7, <2>2, <2>3, <2>4, <2>7, <3>1 DEF PushAt
  <2>8. CASE popStage1[l] = a /\ cnt # 0
    <3>1. PICK x : x = [node |-> <<l, a>>, way |-> w,
                        entry |-> Entry(IF cnt - 1 = 0 THEN EmptyWord ELSE ChildResp(l), cnt - 1)]
      OBVIOUS
    <3>2. Here = {x}
      BY <2>1, <2>2, <2>3, <2>4, <2>5, <2>8, <3>1 DEF Refill
    <3>3. x.node = <<l, a>> /\ x.way = w
          /\ x.entry = Entry(IF cnt - 1 = 0 THEN EmptyWord ELSE ChildResp(l), cnt - 1)
      BY <3>1
    <3>4. ram'[n] = [ram[n] EXCEPT ![w] =
                       Entry(IF cnt - 1 = 0 THEN EmptyWord ELSE ChildResp(l), cnt - 1)]
      BY <1>1, <1>4, <3>2, <3>3
    <3> QED  BY <1>1, <1>7, <2>2, <2>3, <2>4, <2>8, <3>4 DEF PushAt
  <2> QED  BY <2>6, <2>7, <2>8
<1> QED  BY <1>6, <1>7

(* Every node but the root is below a way of another.                      *)
LEMMA ParentOf ==
    ASSUME NEW l \in Level, l # 1, NEW a \in Addr(l)
    PROVE  \E m \in Level : \E b \in Addr(m), w \in Way :
             m < Levels /\ l = m + 1 /\ a = ChildAddr(b, w)
<1>1. PICK m \in Level : m < Levels /\ l = m + 1
  <2>1. l - 1 \in Level /\ l - 1 < Levels /\ l = (l - 1) + 1
    BY LevelsAssumption DEF Level
  <2> QED  BY <2>1
<1>2. m \in Nat /\ m >= 1 /\ l - 1 = m
  BY <1>1, LevelsAssumption DEF Level
<1>3. a \in [1 .. m -> Way]
  BY <1>2 DEF Addr
<1>4. PICK b : b = [i \in 1 .. m - 1 |-> a[i]]
  OBVIOUS
<1>5. b \in [1 .. m - 1 -> Way] /\ \A i \in 1 .. m - 1 : b[i] = a[i]
  <2>1. \A i \in 1 .. m - 1 : i \in 1 .. m
    BY <1>2
  <2> QED  BY <1>3, <1>4, <2>1
<1>6. a[m] \in Way
  BY <1>2, <1>3
<1>7. PICK w \in Way : w = a[m]
  BY <1>6
<1>8. b \in Seq(Way) /\ Len(b) = m - 1
  BY <1>2, <1>5
<1>9. a \in Seq(Way) /\ Len(a) = m
  BY <1>2, <1>3
<1>10. a = Append(b, w)
  <2>1. Append(b, w) \in Seq(Way) /\ Len(Append(b, w)) = m
    BY <1>2, <1>8
  <2>2. \A i \in 1 .. m : Append(b, w)[i] = a[i]
    BY <1>2, <1>5, <1>7, <1>8
  <2> QED  BY <1>9, <2>1, <2>2
<1>11. b \in Addr(m)
  BY <1>5 DEF Addr
<1> QED  BY <1>1, <1>10, <1>11 DEF ChildAddr

AfterPush(k, a, node, word, new, down) ==
    LET w == MinSubTree(node)
    IN  /\ NodeOk(new, k) /\ Total(new) = Total(node) + 1
        /\ w \in Way /\ \A v \in Way : v # w => new[v] = node[v]
        /\ new[w].cnt = node[w].cnt + 1
        /\ new[w].word.rank <= node[w].word.rank /\ new[w].word.rank <= word.rank
        /\ new[w].word \in {node[w].word, word}
        /\ node[w].cnt = 0 => down = None
        /\ node[w].cnt # 0 =>
             /\ down \in [addr : {ChildAddr(a, w)}, word : Word]
             /\ new[w].word.rank <= down.word.rank
AfterPop(k, node, new, resp) ==
    LET w == MinDataPort(node)
    IN  /\ NodeOk(new, k) /\ Total(new) = Total(node) - 1
        /\ w \in Way /\ \A v \in Way : v # w => new[v] = node[v]
        /\ node[w].cnt > 0 /\ new[w].cnt = node[w].cnt - 1
        /\ new[w].word = IF node[w].cnt = 1 THEN EmptyWord ELSE resp

(* There is room for a word that is on its way into a node.                *)
LEMMA RoomForPush ==
    ASSUME NEW room, RoomOf(room), TreeOk(room),
           NEW l \in Level, NEW a \in Addr(l), PushAt(l, a)
    PROVE  Total(ram[<<l, a>>]) < Ways * room[l]
<1>1. NodeOk(ram[<<l, a>>], room[l]) /\ room[l] \in Nat
  BY DEF TreeOk, NodesOk, RoomOf
<1>2. Total(ram[<<l, a>>]) \in Nat
  BY <1>1, PopFinds
<1>3. Ways * room[l] \in Nat
  BY <1>1, WaysAssumption
<1>4. CASE l = 1
  <2>1. load = Total(ram[Root]) + 1 /\ load \in Nat /\ load <= MaxLoad
    BY <1>4 DEF PushAt, TreeOk, RootOk
  <2>2. Root = <<l, a>>
    BY <1>4, Nodes DEF Root
  <2>3. MaxLoad <= Ways * room[l]
    BY <1>4 DEF RoomOf
  <2> QED  BY <1>2, <1>3, <2>1, <2>2, <2>3, LoadAssumption
<1>5. CASE l # 1
  <2>1. PICK m \in Level : \E b \in Addr(m), w \in Way :
          m < Levels /\ l = m + 1 /\ a = ChildAddr(b, w)
    BY <1>5, ParentOf
  <2>2. PICK b \in Addr(m), w \in Way : m < Levels /\ l = m + 1 /\ a = ChildAddr(b, w)
    BY <2>1
  <2>3. EdgeOk(m, b, w)
    BY <2>2 DEF TreeOk, Below
  <2>4. PICK cnt : cnt = ram[<<m, b>>][w].cnt
    OBVIOUS
  <2>5. cnt = 2 + Total(ram[<<l, a>>])
    BY <2>2, <2>3, <2>4 DEF EdgeOk, CountOk
  <2>6. cnt <= room[m]
    BY <2>2, <2>4 DEF TreeOk, NodesOk, NodeOk, Capped
  <2>7. room[m] = 1 + Ways * room[l]
    BY <2>2 DEF RoomOf
  <2> QED  BY <1>2, <1>3, <2>5, <2>6, <2>7
<1> QED  BY <1>4, <1>5

(* The push at a node.                                                     *)
LEMMA PushStep ==
    ASSUME NEW room, RoomOf(room), TreeOk(room), Waves, Next,
           NEW l \in Level, NEW a \in Addr(l), PushAt(l, a)
    PROVE  AfterPush(room[l], a, ram[<<l, a>>], pushStage[l].word,
                     ram'[<<l, a>>], PushRequest(l))
<1>1. PICK node : node = ram[<<l, a>>]
  OBVIOUS
<1>2. PICK k \in Nat : k = room[l]
  BY DEF RoomOf
<1>3. NodeOk(node, k) /\ Total(node) < Ways * k
  BY <1>1, <1>2, RoomForPush DEF TreeOk, NodesOk
<1>4. PICK w \in Way : w = MinSubTree(node)
  BY <1>3, Ports DEF NodeOk
<1>5. PICK old \in Word \union {EmptyWord} : old = node[w].word
  BY <1>3, Ranks DEF NodeOk
<1>6. PICK x \in Word : x = pushStage[l].word
  BY StageAt DEF TreeOk, PushAt
<1>7. Read(l, pushStage[l].addr) = node
  BY <1>1, ReadIs DEF PushAt, Free
<1>8. PICK stays : stays = IF old.rank <= x.rank THEN old ELSE x
  OBVIOUS
<1>9. PICK goes : goes = IF old.rank > x.rank THEN old ELSE x
  OBVIOUS
<1>10. /\ Insertion(l).way = w /\ Insertion(l).stays = stays
       /\ Insertion(l).goes = goes /\ Insertion(l).cnt = node[w].cnt + 1
       /\ Insertion(l).down = (old.rank # MaxRank)
  BY <1>4, <1>5, <1>6, <1>7, <1>8, <1>9 DEF Insertion
<1>11. old.rank \in Nat /\ x.rank \in Nat /\ x.rank < MaxRank /\ old.rank <= MaxRank
  BY Ranks
<1>12. /\ stays.rank <= old.rank /\ stays.rank <= x.rank
       /\ stays \in {old, x} /\ stays.rank <= goes.rank
  BY <1>8, <1>9, <1>11
<1>13. stays \in Word
  BY <1>8, <1>11, Ranks
<1>14. old # EmptyWord => goes \in Word
  BY <1>9
<1>15. node[w].cnt = 0 <=> old.rank = MaxRank
  BY <1>3, <1>5, Ranks DEF NodeOk, Marked
<1>16. PICK new : new = ram'[<<l, a>>]
  OBVIOUS
<1>17. new = [node EXCEPT ![MinSubTree(node)] = Entry(stays, node[MinSubTree(node)].cnt + 1)]
  <2>1. ClockLevels
    BY CycleStages
  <2>2. new = [node EXCEPT ![Insertion(l).way] = Entry(Insertion(l).stays, Insertion(l).cnt)]
    BY <1>1, <1>16, <2>1, Written DEF TreeOk
  <2> QED  BY <1>4, <1>10, <2>2
<1>18. NodeOk(new, k) /\ Total(new) = Total(node) + 1
  BY <1>3, <1>13, <1>17, PushNode
<1>19. /\ \A v \in Way : v # w => new[v] = node[v]
       /\ new[w].word = stays /\ new[w].cnt = node[w].cnt + 1
  BY <1>3, <1>4, <1>17 DEF NodeOk, NodeType, Entry
<1>20. PICK down : down = PushRequest(l)
  OBVIOUS
<1>21. node[w].cnt = 0 => down = None
  <2>1. node[w].cnt = 0 => ~Insertion(l).down
    BY <1>10, <1>15
  <2> QED  BY <1>20, <2>1 DEF PushRequest
<1>22. ASSUME node[w].cnt # 0
       PROVE  down \in [addr : {ChildAddr(a, w)}, word : Word] /\ down.word = goes
  <2>1. old.rank # MaxRank /\ goes \in Word
    BY <1>14, <1>15, <1>22, Ranks
  <2>2. Insertion(l).down
    BY <1>10, <2>1
  <2>3. down = [addr |-> ChildAddr(a, w), word |-> goes]
    BY <1>10, <1>20, <2>2 DEF PushRequest, PushAt
  <2> QED  BY <2>1, <2>3
<1>23. AfterPush(k, a, node, x, new, down)
  BY <1>4, <1>5, <1>12, <1>18, <1>19, <1>21, <1>22 DEF AfterPush
<1> QED  BY <1>1, <1>2, <1>6, <1>16, <1>20, <1>23

(* The word the level below gives up is its least, and there is one unless *)
(* the node above takes its last.                                          *)
LEMMA RespIs ==
    ASSUME NEW room, RoomOf(room), TreeOk(room), Waves,
           NEW l \in Level, NEW a \in Addr(l), popStage1[l] = a,
           NEW node, node = ram[<<l, a>>], NEW w \in Way, w = MinDataPort(node),
           node[w].cnt # 0, node[w].cnt # 1
    PROVE  /\ l < Levels
           /\ ChildResp(l) =
                ram[<<l + 1, ChildAddr(a, w)>>][MinDataPort(ram[<<l + 1, ChildAddr(a, w)>>])].word
           /\ ChildResp(l) \in Word
<1>1. a # None
  BY StageAt DEF TreeOk
<1>2. l < Levels
  <2>1. NodeOk(node, room[l])
    BY DEF TreeOk, NodesOk
  <2>2. node[w].cnt \in Nat /\ node[w].cnt <= room[l]
    BY <2>1, Ranks DEF NodeOk, Capped
  <2>3. CASE l = Levels
    <3>1. room[l] = 1
      BY <2>3 DEF RoomOf
    <3> QED  BY <2>2, <3>1
  <2>4. CASE l # Levels
    BY <2>4, LevelsAssumption DEF Level
  <2> QED  BY <2>3, <2>4
<1>3. PICK m \in Level : m = l + 1
  BY <1>2, LevelsAssumption DEF Level
<1>4. PICK c \in Addr(m) : c = ChildAddr(a, w)
  BY <1>3, ChildIn
<1>5. popStage0[m] = c
  BY <1>1, <1>2, <1>3, <1>4 DEF TreeOk, Below, PairOk
<1>6. c # None
  BY NoneAssumption
<1>7. Read(m, c) = ram[<<m, c>>]
  BY <1>5, <1>6, ReadIs DEF Free
<1>8. PICK child : child = ram[<<m, c>>]
  OBVIOUS
<1>9. ChildResp(l) = child[MinDataPort(child)].word
  <2>1. l # Levels
    BY <1>2, LevelsAssumption DEF Level
  <2> QED  BY <1>3, <1>5, <1>6, <1>7, <1>8, <2>1 DEF ChildResp, LeastWord
<1>10. NodeOk(child, room[m]) /\ room[m] \in Nat
  BY <1>8 DEF TreeOk, NodesOk, RoomOf
<1>11. Total(child) # 0
  <2>1. EdgeOk(l, a, w)
    BY <1>2 DEF TreeOk, Below
  <2>2. ~PushAt(m, c)
    <3>1. OneStage(m)
      BY DEF Waves
    <3> QED  BY <1>5, <1>6, <3>1 DEF OneStage, PushAt
  <2>3. ~PopAt(m, c)
    <3>1. OneStage(m)
      BY DEF Waves
    <3> QED  BY <1>5, <1>6, <3>1 DEF OneStage, PopAt
  <2>4. CountOk(node[w].cnt, Total(child), PushAt(m, c), PopAt(m, c))
    BY <1>3, <1>4, <1>8, <2>1 DEF EdgeOk
  <2>5. node[w].cnt = 1 + Total(child)
    BY <2>2, <2>3, <2>4 DEF CountOk
  <2> QED  BY <2>5
<1>12. child[MinDataPort(child)].cnt # 0 /\ MinDataPort(child) \in Way
  <2>1. Total(child) \in Nat /\ (Total(child) > 0 <=> child[MinDataPort(child)].cnt > 0)
    BY <1>10, PopFinds
  <2>2. child[MinDataPort(child)].cnt > 0
    BY <1>11, <2>1
  <2> QED  BY <1>10, <2>2, Ports DEF NodeOk
<1>13. child[MinDataPort(child)].word \in Word
  BY <1>10, <1>12, Ranks DEF NodeOk, Marked
<1> QED  BY <1>2, <1>3, <1>4, <1>8, <1>9, <1>13

(* The pop at a node.                                                      *)
LEMMA PopStep ==
    ASSUME NEW room, RoomOf(room), TreeOk(room), Waves, Next,
           NEW l \in Level, NEW a \in Addr(l), PopAt(l, a)
    PROVE  AfterPop(room[l], ram[<<l, a>>], ram'[<<l, a>>], ChildResp(l))
<1>1. PICK node : node = ram[<<l, a>>]
  OBVIOUS
<1>2. PICK k \in Nat : k = room[l]
  BY DEF RoomOf
<1>3. NodeOk(node, k) /\ Total(node) > 0 /\ popStage1[l] = a
  BY <1>1, <1>2 DEF TreeOk, NodesOk, PopAt
<1>4. PICK w \in Way : w = MinDataPort(node)
  BY <1>3, Ports DEF NodeOk
<1>5. node[w].cnt > 0 /\ node[w].cnt \in Nat
  <2>1. node[w].cnt \in Nat
    BY <1>3, Ranks DEF NodeOk
  <2> QED  BY <1>3, <1>4, <2>1, PopFinds
<1>6. popStage1[l] # None
  BY <1>3, StageAt DEF TreeOk
<1>7. Read(l, a) = node
  BY <1>1, <1>6, ReadIs DEF Free
<1>8. pushStage[l] = None
  BY <1>6 DEF Waves, OneStage
<1>9. PICK new : new = ram'[<<l, a>>]
  OBVIOUS
<1>10. PICK resp : resp = IF node[w].cnt = 1 THEN EmptyWord ELSE ChildResp(l)
  OBVIOUS
<1>11. new = [node EXCEPT ![w] = Entry(resp, node[w].cnt - 1)]
  <2>1. ClockLevels
    BY CycleStages
  <2>2. new = [node EXCEPT ![w] =
                 Entry(IF node[w].cnt - 1 = 0 THEN EmptyWord ELSE ChildResp(l), node[w].cnt - 1)]
    <3>1. node[w].cnt # 0
      BY <1>5
    <3>2. StageTypes
      BY DEF TreeOk
    <3>3. ram'[<<l, a>>] =
            LET v == MinDataPort(Read(l, a))
                cnt == Read(l, a)[v].cnt
            IN  IF cnt = 0 THEN ram[<<l, a>>]
                ELSE [ram[<<l, a>>] EXCEPT ![v] =
                        Entry(IF cnt - 1 = 0 THEN EmptyWord ELSE ChildResp(l), cnt - 1)]
      BY <1>3, <1>8, <2>1, <3>2, Written
    <3> QED  BY <1>1, <1>4, <1>7, <1>9, <3>1, <3>3
  <2>3. node[w].cnt - 1 = 0 <=> node[w].cnt = 1
    BY <1>5
  <2> QED  BY <1>10, <2>2, <2>3
<1>12. node[w].cnt # 1 => resp \in Word
  <2>1. ASSUME node[w].cnt # 1 PROVE resp \in Word
    <3>1. node[w].cnt # 0
      BY <1>5
    <3>2. ChildResp(l) \in Word
      BY <1>1, <1>3, <1>4, <2>1, <3>1, RespIs
    <3> QED  BY <1>10, <2>1, <3>2
  <2> QED  BY <2>1
<1>13. NodeOk(new, k) /\ Total(new) = Total(node) - 1
  BY <1>3, <1>4, <1>10, <1>11, <1>12, PopNode
<1>14. /\ \A v \in Way : v # w => new[v] = node[v]
       /\ new[w].word = resp /\ new[w].cnt = node[w].cnt - 1
  BY <1>3, <1>4, <1>11 DEF NodeOk, NodeType, Entry
<1>15. AfterPop(k, node, new, ChildResp(l))
  BY <1>4, <1>5, <1>10, <1>13, <1>14 DEF AfterPop
<1> QED  BY <1>1, <1>2, <1>9, <1>15

(* A node at which neither happens stays as it is.                         *)
LEMMA StillStep ==
    ASSUME NEW room, RoomOf(room), TreeOk(room), Waves, Next,
           NEW l \in Level, NEW a \in Addr(l), ~PushAt(l, a), ~PopAt(l, a)
    PROVE  ram'[<<l, a>>] = ram[<<l, a>>]
<1>1. ClockLevels
  BY CycleStages
<1>2. CASE pushStage[l] # None \/ popStage1[l] # a
  BY <1>1, <1>2, Written DEF TreeOk
<1>3. CASE pushStage[l] = None /\ popStage1[l] = a
  <2>1. PICK node : node = ram[<<l, a>>]
    OBVIOUS
  <2>2. NodeOk(node, room[l]) /\ room[l] \in Nat
    BY <2>1 DEF TreeOk, NodesOk, RoomOf
  <2>3. popStage1[l] # None
    BY <1>3, StageAt DEF TreeOk
  <2>4. Read(l, a) = node
    BY <2>1, <2>3, ReadIs DEF Free
  <2>5. node[MinDataPort(node)].cnt = 0
    <3>1. ~(Total(node) > 0)
      BY <1>3, <2>1 DEF PopAt
    <3>2. Total(node) \in Nat
      BY <2>2, PopFinds
    <3>3. Total(node) = 0
      BY <3>1, <3>2
    <3>4. MinDataPort(node) \in Way
      BY <2>2, Ports DEF NodeOk
    <3> QED  BY <2>2, <3>3, <3>4, PopFinds
  <2> QED  BY <1>1, <1>3, <2>1, <2>4, <2>5, Written DEF TreeOk
<1> QED  BY <1>2, <1>3

(* What a pop puts in the place of the word it takes is no less.           *)
LEMMA PopRaises ==
    ASSUME NEW room, RoomOf(room), TreeOk(room), Waves, Next,
           NEW l \in Level, NEW a \in Addr(l), PopAt(l, a), NEW v \in Way
    PROVE  ram[<<l, a>>][v].word.rank <= ram'[<<l, a>>][v].word.rank
<1>1. PICK node : node = ram[<<l, a>>]
  OBVIOUS
<1>2. PICK new : new = ram'[<<l, a>>]
  OBVIOUS
<1>3. PICK k \in Nat : k = room[l]
  BY DEF RoomOf
<1>4. AfterPop(k, node, new, ChildResp(l))
  BY <1>1, <1>2, <1>3, PopStep
<1>5. NodeOk(node, k)
  BY <1>1, <1>3 DEF TreeOk, NodesOk
<1>6. node[v].word \in Word \union {EmptyWord}
  BY <1>5, Ranks DEF NodeOk
<1>7. node[v].word.rank \in Nat /\ node[v].word.rank <= MaxRank
  BY <1>6, Ranks
<1>8. PICK w \in Way : w = MinDataPort(node)
  BY <1>4 DEF AfterPop
<1>9. CASE v # w
  BY <1>1, <1>2, <1>4, <1>7, <1>8, <1>9 DEF AfterPop
<1>10. CASE v = w /\ node[w].cnt = 1
  <2>1. new[v].word = EmptyWord
    BY <1>4, <1>8, <1>10 DEF AfterPop
  <2> QED  BY <1>1, <1>2, <1>7, <2>1, Ranks
<1>11. CASE v = w /\ node[w].cnt # 1
  <2>1. new[v].word = ChildResp(l) /\ node[w].cnt # 0
    BY <1>4, <1>8, <1>11 DEF AfterPop
  <2>2. PICK child : child = ram[<<l + 1, ChildAddr(a, w)>>]
    OBVIOUS
  <2>3. popStage1[l] = a
    BY DEF PopAt
  <2>4. l < Levels /\ ChildResp(l) = child[MinDataPort(child)].word
    BY <1>1, <1>8, <1>11, <2>1, <2>2, <2>3, RespIs
  <2>5. HeapOk(node[w].word, child)
    <3>1. EdgeOk(l, a, w)
      BY <2>4 DEF TreeOk, Below
    <3> QED  BY <1>1, <2>2, <3>1 DEF EdgeOk
  <2>6. MinDataPort(child) \in Way
    <3>1. l + 1 \in Level /\ ChildAddr(a, w) \in Addr(l + 1)
      BY <2>4, ChildIn
    <3>2. NodeOk(child, room[l + 1])
      BY <2>2, <3>1 DEF TreeOk, NodesOk
    <3> QED  BY <3>2, Ports DEF NodeOk
  <2> QED  BY <1>1, <1>2, <1>11, <2>1, <2>4, <2>5, <2>6 DEF HeapOk
<1> QED  BY <1>9, <1>10, <1>11

(* What comes to a node comes from the node above it.                      *)
LEMMA FromAbove ==
    ASSUME NEW room, RoomOf(room), TreeOk(room), Waves, Next,
           NEW l \in Level, l < Levels, NEW a \in Addr(l), NEW w \in Way,
           NEW m \in Level, m = l + 1, NEW c \in Addr(m), c = ChildAddr(a, w)
    PROVE  /\ PushAt(m, c)' =>
                PushAt(l, a) /\ w = MinSubTree(ram[<<l, a>>]) /\ pushStage'[m] = PushRequest(l)
           /\ popStage1'[m] = c =>
                popStage0[m] = c /\ popStage1[l] = a /\ w = MinDataPort(ram[<<l, a>>])
<1>1. /\ popStage1'[m] = popStage0[m]
      /\ pushStage'[m] = IF PopRequest(l) # None THEN None ELSE PushRequest(l)
  BY NextStages
<1>2. ASSUME PushAt(m, c)'
      PROVE  PushAt(l, a) /\ w = MinSubTree(ram[<<l, a>>]) /\ pushStage'[m] = PushRequest(l)
  <2>1. pushStage'[m] = PushRequest(l) /\ PushRequest(l) # None /\ PushRequest(l).addr = c
    BY <1>1, <1>2 DEF PushAt
  <2>2. pushStage[l] # None
    BY <2>1 DEF PushRequest
  <2>3. PICK b \in Addr(l) : b = pushStage[l].addr
    BY <2>2, StageAt DEF TreeOk
  <2>4. PICK node : node = ram[<<l, b>>]
    OBVIOUS
  <2>5. AfterPush(room[l], b, node, pushStage[l].word, ram'[<<l, b>>], PushRequest(l))
    BY <2>2, <2>3, <2>4, PushStep DEF PushAt
  <2>6. MinSubTree(node) \in Way /\ c = ChildAddr(b, MinSubTree(node))
    BY <2>1, <2>5 DEF AfterPush
  <2>7. a = b /\ w = MinSubTree(node)
    <3>1. PICK v \in Way : v = MinSubTree(node)
      BY <2>6
    <3>2. ChildAddr(a, w) = ChildAddr(b, v)
      BY <2>6, <3>1
    <3> QED  BY <3>1, <3>2, ChildOnce
  <2> QED  BY <2>1, <2>2, <2>3, <2>4, <2>7 DEF PushAt
<1>3. ASSUME popStage1'[m] = c
      PROVE  popStage0[m] = c /\ popStage1[l] = a /\ w = MinDataPort(ram[<<l, a>>])
  <2>1. popStage0[m] = c /\ c # None
    BY <1>1, <1>3, NoneAssumption
  <2>2. popStage1[l] # None
    BY <2>1 DEF Waves, Behind
  <2>3. PICK b \in Addr(l) : b = popStage1[l]
    BY <2>2, StageAt DEF TreeOk
  <2>4. PICK node : node = ram[<<l, b>>]
    OBVIOUS
  <2>5. c = ChildAddr(b, MinDataPort(node))
    BY <2>1, <2>2, <2>3, <2>4 DEF TreeOk, Below, PairOk
  <2>6. MinDataPort(node) \in Way
    BY <2>4, Ports DEF TreeOk, NodesOk, NodeOk
  <2>7. a = b /\ w = MinDataPort(node)
    <3>1. PICK v \in Way : v = MinDataPort(node)
      BY <2>6
    <3>2. ChildAddr(a, w) = ChildAddr(b, v)
      BY <2>5, <3>1
    <3> QED  BY <3>1, <3>2, ChildOnce
  <2> QED  BY <2>1, <2>3, <2>4, <2>7
<1> QED  BY <1>2, <1>3

(* Counters and order between a node and the node below it are kept.       *)
LEMMA EdgeStep ==
    ASSUME NEW room, RoomOf(room), TreeOk(room), Waves, Next,
           NEW l \in Level, l < Levels, NEW a \in Addr(l), NEW w \in Way
    PROVE  EdgeOk(l, a, w)'
<1>1. PICK m \in Level : m = l + 1
  BY LevelsAssumption DEF Level
<1>2. PICK c \in Addr(m) : c = ChildAddr(a, w)
  BY <1>1, ChildIn
<1>3. PICK node : node = ram[<<l, a>>]
  OBVIOUS
<1>4. PICK new : new = ram'[<<l, a>>]
  OBVIOUS
<1>5. PICK child : child = ram[<<m, c>>]
  OBVIOUS
<1>6. PICK newchild : newchild = ram'[<<m, c>>]
  OBVIOUS
<1>7. /\ NodeOk(node, room[l]) /\ NodeOk(child, room[m])
      /\ room[l] \in Nat /\ room[m] \in Nat
  BY <1>3, <1>5 DEF TreeOk, NodesOk, RoomOf
<1>8. /\ node[w].cnt \in Nat /\ node[w].word \in Word \union {EmptyWord}
      /\ \A v \in Way : child[v].word \in Word \union {EmptyWord}
      /\ Total(child) \in Nat
  BY <1>7, Ranks, PopFinds DEF NodeOk
<1>9. /\ CountOk(node[w].cnt, Total(child), PushAt(m, c), PopAt(m, c))
      /\ HeapOk(node[w].word, child)
      /\ PushAt(m, c) => node[w].word.rank <= pushStage[m].word.rank
  <2>1. EdgeOk(l, a, w)
    BY DEF TreeOk, Below
  <2> QED  BY <1>1, <1>2, <1>3, <1>5, <2>1 DEF EdgeOk
<1>10. SUFFICES /\ CountOk(new[w].cnt, Total(newchild), PushAt(m, c)', PopAt(m, c)')
                /\ HeapOk(new[w].word, newchild)
                /\ PushAt(m, c)' => new[w].word.rank <= pushStage'[m].word.rank
  BY <1>1, <1>2, <1>4, <1>6 DEF EdgeOk
<1>11. /\ PushAt(m, c)' =>
            PushAt(l, a) /\ w = MinSubTree(node) /\ pushStage'[m] = PushRequest(l)
       /\ popStage1'[m] = c =>
            popStage0[m] = c /\ popStage1[l] = a /\ w = MinDataPort(node)
  BY <1>1, <1>2, <1>3, FromAbove
<1>12. PopAt(m, c)' <=> popStage1'[m] = c /\ Total(newchild) > 0
  BY <1>6 DEF PopAt
<1>13. c # None /\ a # None
  BY NoneAssumption
<1>14. /\ pushStage[m] # None \/ popStage1[m] # None => Free(l) /\ popStage0[m] = None
       /\ PushAt(l, a) => popStage1[l] = None
  BY <1>1 DEF Waves, Behind, OneStage, PushAt
<1>15. ~PushAt(l, a) /\ ~PopAt(l, a) => new = node
  BY <1>3, <1>4, StillStep
<1>16. ~PushAt(m, c) /\ ~PopAt(m, c) => newchild = child
  BY <1>5, <1>6, StillStep
<1>17. CASE PushAt(m, c)
  <2>1. Free(l) /\ popStage0[m] = None
    BY <1>14, <1>17 DEF PushAt
  <2>2. new = node /\ ~PushAt(m, c)' /\ ~PopAt(m, c)'
    BY <1>11, <1>12, <1>13, <1>15, <2>1 DEF Free, PushAt, PopAt
  <2>3. AfterPush(room[m], c, child, pushStage[m].word, newchild, PushRequest(m))
    BY <1>5, <1>6, <1>17, PushStep
  <2>4. Total(newchild) = Total(child) + 1
    BY <2>3 DEF AfterPush
  <2>5. node[w].cnt = 2 + Total(child) /\ node[w].cnt # 0
    BY <1>9, <1>17 DEF CountOk
  <2>6. CountOk(new[w].cnt, Total(newchild), PushAt(m, c)', PopAt(m, c)')
    <3>1. new[w].cnt = 1 + Total(newchild)
      BY <1>8, <2>2, <2>4, <2>5
    <3> QED  BY <2>2, <2>5, <3>1 DEF CountOk
  <2>7. HeapOk(new[w].word, newchild)
    <3>1. ASSUME NEW v \in Way PROVE node[w].word.rank <= newchild[v].word.rank
      <4>1. newchild[v].word = child[v].word \/ newchild[v].word = pushStage[m].word
        BY <2>3 DEF AfterPush
      <4> QED  BY <1>9, <1>17, <4>1 DEF HeapOk
    <3> QED  BY <2>2, <3>1 DEF HeapOk
  <2> QED  BY <2>2, <2>6, <2>7
<1>18. CASE PopAt(m, c)
  <2>1. popStage1[m] = c
    BY <1>18 DEF PopAt
  <2>2. Free(l) /\ popStage0[m] = None
    BY <1>13, <1>14, <2>1
  <2>3. new = node /\ ~PushAt(m, c)' /\ ~PopAt(m, c)'
    BY <1>11, <1>12, <1>13, <1>15, <2>2 DEF Free, PushAt, PopAt
  <2>4. Total(newchild) = Total(child) - 1
    <3>1. AfterPop(room[m], child, newchild, ChildResp(m))
      BY <1>5, <1>6, <1>18, PopStep
    <3> QED  BY <3>1 DEF AfterPop
  <2>5. Total(child) > 0
    BY <1>5, <1>18 DEF PopAt
  <2>6. node[w].cnt = Total(child)
    <3>1. node[w].cnt # 0
      BY <1>9, <2>5 DEF CountOk
    <3> QED  BY <1>9, <1>18, <3>1 DEF CountOk
  <2>7. CountOk(new[w].cnt, Total(newchild), PushAt(m, c)', PopAt(m, c)')
    <3>1. new[w].cnt = 1 + Total(newchild) /\ new[w].cnt # 0
      BY <1>8, <2>3, <2>4, <2>5, <2>6
    <3> QED  BY <2>3, <3>1 DEF CountOk
  <2>8. HeapOk(new[w].word, newchild)
    <3>1. ASSUME NEW v \in Way PROVE node[w].word.rank <= newchild[v].word.rank
      <4>1. child[v].word.rank <= newchild[v].word.rank
        BY <1>5, <1>6, <1>18, PopRaises
      <4>2. node[w].word.rank <= child[v].word.rank
        BY <1>9 DEF HeapOk
      <4>3. node[w].word.rank \in Nat /\ child[v].word.rank \in Nat
        BY <1>8, Ranks
      <4>4. newchild[v].word.rank \in Nat
        <5>1. AfterPop(room[m], child, newchild, ChildResp(m))
          BY <1>5, <1>6, <1>18, PopStep
        <5> QED  BY <5>1, Ranks DEF AfterPop, NodeOk
      <4> QED  BY <4>1, <4>2, <4>3, <4>4
    <3> QED  BY <2>3, <3>1 DEF HeapOk
  <2> QED  BY <2>3, <2>7, <2>8
<1>19. CASE ~PushAt(m, c) /\ ~PopAt(m, c)
  <2>1. newchild = child
    BY <1>16, <1>19
  <2>2. /\ node[w].cnt = 0 => Total(child) = 0
        /\ node[w].cnt # 0 => node[w].cnt = 1 + Total(child)
    BY <1>9, <1>19 DEF CountOk
  <2>3. CASE PushAt(l, a)
    <3>1. AfterPush(room[l], a, node, pushStage[l].word, new, PushRequest(l))
      BY <1>3, <1>4, <2>3, PushStep
    <3>2. ~PopAt(m, c)'
      BY <1>11, <1>12, <1>13, <1>14, <2>3
    <3>3. CASE w # MinSubTree(node)
      <4>1. new[w] = node[w] /\ ~PushAt(m, c)'
        BY <1>11, <3>1, <3>3 DEF AfterPush
      <4> QED  BY <1>9, <2>1, <2>2, <3>2, <4>1 DEF CountOk
    <3>4. CASE w = MinSubTree(node)
      <4>1. /\ new[w].cnt = node[w].cnt + 1 /\ new[w].word.rank <= node[w].word.rank
            /\ node[w].cnt = 0 => PushRequest(l) = None
            /\ node[w].cnt # 0 => new[w].word.rank <= PushRequest(l).word.rank
        BY <3>1, <3>4 DEF AfterPush
      <4>2. node[w].cnt # 0 => PushAt(m, c)'
        <5>1. ASSUME node[w].cnt # 0 PROVE PushAt(m, c)'
          <6>1. PushRequest(l) \in [addr : {c}, word : Word]
            BY <1>2, <3>1, <3>4, <5>1 DEF AfterPush
          <6>2. PushRequest(l) # None /\ PushRequest(l).addr = c
            BY <6>1, NoneAssumption
          <6>3. PopRequest(l) = None
            BY <2>3 DEF Waves, OneStage, PushAt, PopRequest
          <6>4. pushStage'[m] = PushRequest(l)
            BY <1>1, <6>3, NextStages
          <6> QED  BY <6>2, <6>4 DEF PushAt
        <5> QED  BY <5>1
      <4>3. node[w].cnt = 0 => ~PushAt(m, c)'
        <5>1. ASSUME PushAt(m, c)' PROVE PushRequest(l) # None
          BY <1>11, <5>1 DEF PushAt
        <5> QED  BY <4>1, <5>1
      <4>4. CountOk(new[w].cnt, Total(newchild), PushAt(m, c)', PopAt(m, c)')
        <5>1. new[w].cnt # 0
          BY <1>8, <4>1
        <5>2. node[w].cnt = 0 => new[w].cnt = 1 + Total(newchild)
          BY <2>1, <2>2, <4>1
        <5>3. node[w].cnt # 0 => new[w].cnt = 2 + Total(newchild)
          BY <1>8, <2>1, <2>2, <4>1
        <5> QED  BY <3>2, <4>2, <4>3, <5>1, <5>2, <5>3 DEF CountOk
      <4>5. HeapOk(new[w].word, newchild)
        <5>1. ASSUME NEW v \in Way PROVE new[w].word.rank <= child[v].word.rank
          <6>1. node[w].word.rank <= child[v].word.rank
            BY <1>9 DEF HeapOk
          <6>2. node[w].word.rank \in Nat /\ child[v].word.rank \in Nat
            BY <1>8, Ranks
          <6>3. new[w].word.rank \in Nat
            BY <3>1, Ranks DEF AfterPush, NodeOk
          <6> QED  BY <4>1, <6>1, <6>2, <6>3
        <5> QED  BY <2>1, <5>1 DEF HeapOk
      <4>6. PushAt(m, c)' => new[w].word.rank <= pushStage'[m].word.rank
        BY <1>11, <4>1, <4>3
      <4> QED  BY <4>4, <4>5, <4>6
    <3> QED  BY <3>3, <3>4
  <2>4. CASE PopAt(l, a)
    <3>1. AfterPop(room[l], node, new, ChildResp(l))
      BY <1>3, <1>4, <2>4, PopStep
    <3>2. ~PushAt(m, c)'
      BY <1>11, <1>13, <1>14, <2>4 DEF PopAt
    <3>3. CASE w # MinDataPort(node)
      <4>1. new[w] = node[w] /\ ~PopAt(m, c)'
        BY <1>11, <1>12, <3>1, <3>3 DEF AfterPop
      <4> QED  BY <1>9, <2>1, <2>2, <3>2, <4>1 DEF CountOk
    <3>4. CASE w = MinDataPort(node)
      <4>1. /\ node[w].cnt > 0 /\ new[w].cnt = node[w].cnt - 1
            /\ new[w].word = IF node[w].cnt = 1 THEN EmptyWord ELSE ChildResp(l)
        BY <3>1, <3>4 DEF AfterPop
      <4>2. new[w].cnt = Total(child)
        BY <1>8, <2>2, <4>1
      <4>3. popStage0[m] = c
        BY <1>1, <1>2, <1>3, <1>13, <2>4, <3>4 DEF PopAt, TreeOk, Below, PairOk
      <4>4. PopAt(m, c)' <=> Total(child) > 0
        <5>1. popStage1'[m] = c
          BY <4>3, NextStages
        <5> QED  BY <1>12, <2>1, <5>1
      <4>5. CountOk(new[w].cnt, Total(newchild), PushAt(m, c)', PopAt(m, c)')
        BY <1>8, <2>1, <3>2, <4>2, <4>4 DEF CountOk
      <4>6. CASE node[w].cnt = 1
        <5>1. Total(child) = 0 /\ new[w].word.rank = MaxRank
          BY <1>8, <2>2, <4>1, <4>6, Ranks
        <5>2. \A v \in Way : child[v].word.rank = MaxRank
          BY <1>7, <5>1, PopFinds
        <5>3. HeapOk(new[w].word, newchild)
          BY <2>1, <5>1, <5>2, RankAssumption DEF HeapOk
        <5> QED  BY <3>2, <4>5, <5>3
      <4>7. CASE node[w].cnt # 1
        <5>1. node[w].cnt # 0 /\ popStage1[l] = a
          BY <2>4, <4>1 DEF PopAt
        <5>2. ChildResp(l) = child[MinDataPort(child)].word
          BY <1>1, <1>2, <1>3, <1>5, <3>4, <4>7, <5>1, RespIs
        <5>3. HeapOk(new[w].word, newchild)
          <6>1. \A v \in Way : child[MinDataPort(child)].word.rank <= child[v].word.rank
            BY <1>7, Ports DEF NodeOk
          <6> QED  BY <2>1, <4>1, <4>7, <5>2, <6>1 DEF HeapOk
        <5> QED  BY <3>2, <4>5, <5>3
      <4> QED  BY <4>6, <4>7
    <3> QED  BY <3>3, <3>4
  <2>5. CASE ~PushAt(l, a) /\ ~PopAt(l, a)
    <3>1. new = node /\ ~PushAt(m, c)'
      BY <1>11, <1>15, <2>5
    <3>2. ~PopAt(m, c)'
      <4>1. ASSUME popStage1'[m] = c PROVE Total(child) = 0
        <5>1. popStage1[l] = a /\ w = MinDataPort(node)
          BY <1>11, <4>1
        <5>2. ~(Total(node) > 0)
          BY <1>3, <2>5, <5>1 DEF PopAt
        <5>3. ~(node[w].cnt > 0)
          BY <1>7, <5>1, <5>2, PopFinds
        <5>4. node[w].cnt = 0
          BY <1>8, <5>3
        <5> QED  BY <2>2, <5>4
      <4> QED  BY <1>12, <2>1, <4>1
    <3> QED  BY <1>9, <2>1, <2>2, <3>1, <3>2 DEF CountOk
  <2> QED  BY <2>3, <2>4, <2>5
<1> QED  BY <1>17, <1>18, <1>19

(* The stages keep their types, and nodes what they promise.               *)
LEMMA StagesStep ==
    ASSUME NEW room, RoomOf(room), TreeOk(room), Waves, Next
    PROVE  StageTypes'
<1> SUFFICES ASSUME NEW l \in Level
             PROVE  /\ popStage0'[l] \in Addr(l) \union {None}
                    /\ popStage1'[l] \in Addr(l) \union {None}
                    /\ pushStage'[l] \in [addr : Addr(l), word : Word] \union {None}
  BY DEF StageTypes
<1>1. popStage1'[l] \in Addr(l) \union {None}
  BY NextStages DEF TreeOk, StageTypes
<1>2. CASE l = 1
  <2>1. /\ popStage0'[1] \in {<<>>, None}
        /\ pushStage'[1] \in [addr : {<<>>}, word : Word] \union {None}
    BY NextStages
  <2> QED  BY <1>1, <1>2, <2>1, Nodes
<1>3. CASE l # 1
  <2>1. PICK m \in Level : m < Levels /\ l = m + 1
    <3>1. l - 1 \in Level /\ l - 1 < Levels /\ l = (l - 1) + 1
      BY <1>3, LevelsAssumption DEF Level
    <3> QED  BY <3>1
  <2>2. /\ popStage0'[l] = PopRequest(m)
        /\ pushStage'[l] = IF PopRequest(m) # None THEN None ELSE PushRequest(m)
    BY <2>1, NextStages
  <2>3. ASSUME PopRequest(m) # None PROVE PopRequest(m) \in Addr(l)
    <3>1. popStage0[m] # None
      BY <2>3 DEF PopRequest
    <3>2. PICK a \in Addr(m) : a = popStage0[m]
      BY <3>1, StageAt DEF TreeOk
    <3>3. PICK node : node = ram[<<m, a>>]
      OBVIOUS
    <3>4. Read(m, a) = node
      BY <3>1, <3>3, ReadIs DEF Free
    <3>5. PICK w \in Way : w = MinDataPort(node)
      BY <3>3, Ports DEF TreeOk, NodesOk, NodeOk
    <3>6. PopRequest(m) = ChildAddr(a, w)
      BY <3>1, <3>2, <3>4, <3>5 DEF PopRequest
    <3> QED  BY <2>1, <3>6, ChildIn
  <2>4. ASSUME PushRequest(m) # None
        PROVE  PushRequest(m) \in [addr : Addr(l), word : Word]
    <3>1. pushStage[m] # None
      BY <2>4 DEF PushRequest
    <3>2. PICK a \in Addr(m) : a = pushStage[m].addr
      BY <3>1, StageAt DEF TreeOk
    <3>3. PICK node : node = ram[<<m, a>>]
      OBVIOUS
    <3>4. AfterPush(room[m], a, node, pushStage[m].word, ram'[<<m, a>>], PushRequest(m))
      BY <3>1, <3>2, <3>3, PushStep DEF PushAt
    <3>5. PICK w \in Way : w = MinSubTree(node)
      BY <3>4 DEF AfterPush
    <3>6. PushRequest(m) \in [addr : {ChildAddr(a, w)}, word : Word]
      BY <2>4, <3>4, <3>5 DEF AfterPush
    <3>7. ChildAddr(a, w) \in Addr(l)
      BY <2>1, ChildIn
    <3> QED  BY <3>6, <3>7
  <2> QED  BY <1>1, <2>2, <2>3, <2>4
<1> QED  BY <1>2, <1>3

(* Nodes keep their types, their marks for empty ways, and their bounds.   *)
LEMMA NodesStep ==
    ASSUME NEW room, RoomOf(room), TreeOk(room), Waves, Next
    PROVE  NodesOk(room)'
<1>1. ASSUME NEW l \in Level, NEW a \in Addr(l) PROVE NodeOk(ram'[<<l, a>>], room[l])
  <2>1. CASE PushAt(l, a)
    <3>1. AfterPush(room[l], a, ram[<<l, a>>], pushStage[l].word,
                    ram'[<<l, a>>], PushRequest(l))
      BY <2>1, PushStep
    <3> QED  BY <3>1 DEF AfterPush
  <2>2. CASE PopAt(l, a)
    <3>1. AfterPop(room[l], ram[<<l, a>>], ram'[<<l, a>>], ChildResp(l))
      BY <2>2, PopStep
    <3> QED  BY <3>1 DEF AfterPop
  <2>3. CASE ~PushAt(l, a) /\ ~PopAt(l, a)
    <3>1. ram'[<<l, a>>] = ram[<<l, a>>]
      BY <2>3, StillStep
    <3>2. NodeOk(ram[<<l, a>>], room[l])
      BY DEF TreeOk, NodesOk
    <3> QED  BY <3>1, <3>2
  <2> QED  BY <2>1, <2>2, <2>3
<1>2. ASSUME NEW n \in Node PROVE ram'[n] \in NodeType
  <2>1. PICK l \in Level : \E a \in Addr(l) : n = <<l, a>>
    BY Nodes
  <2>2. PICK a \in Addr(l) : n = <<l, a>>
    BY <2>1
  <2> QED  BY <1>1, <2>2 DEF NodeOk
<1>3. ram' = [n \in Node |-> ram'[n]]
  BY CycleStages DEF ClockLevels
<1>4. ram' \in [Node -> NodeType]
  BY <1>2, <1>3
<1>5. (\A l \in Level : \A a \in Addr(l) : NodeOk(ram[<<l, a>>], room[l]))'
  BY <1>1 DEF NodeOk, NodeType, Marked, Capped
<1> QED  BY <1>4, <1>5 DEF NodesOk

(* A pop goes to the way whose word its answer will replace.               *)
LEMMA PairStep ==
    ASSUME NEW room, RoomOf(room), TreeOk(room), Waves, Next,
           NEW l \in Level, l < Levels
    PROVE  PairOk(l)'
<1>1. popStage1'[l] = popStage0[l] /\ popStage0'[l + 1] = PopRequest(l)
  BY NextStages
<1>2. SUFFICES ASSUME popStage0[l] # None
      PROVE  PopRequest(l) = ChildAddr(popStage0[l], MinDataPort(ram'[<<l, popStage0[l]>>]))
  <2>1. PICK p : p = popStage0[l]
    OBVIOUS
  <2> QED  BY <1>1, <2>1 DEF PairOk, MinDataPort, LeastWay
<1>3. PICK a \in Addr(l) : a = popStage0[l]
  BY <1>2, StageAt DEF TreeOk
<1>4. PICK node : node = ram[<<l, a>>]
  OBVIOUS
<1>5. Read(l, a) = node
  BY <1>2, <1>4, ReadIs DEF Free
<1>6. popStage1[l] = None /\ pushStage[l] = None
  BY <1>2 DEF Waves, OneStage
<1>7. ram'[<<l, a>>] = node
  <2>1. ~PushAt(l, a) /\ ~PopAt(l, a)
    BY <1>6, NoneAssumption DEF PushAt, PopAt
  <2> QED  BY <1>4, <2>1, StillStep
<1> QED  BY <1>2, <1>3, <1>5, <1>7 DEF PopRequest

(* What the root holds and what is outstanding stay the same number but    *)
(* for the operation in its stages, and its copy is old only after one.    *)
LEMMA RootStep ==
    ASSUME NEW room, RoomOf(room), TreeOk(room), Waves, Next
    PROVE  RootOk'
<1>1. 1 \in Level /\ <<>> \in Addr(1) /\ Root = <<1, <<>>>> /\ \A a \in Addr(1) : a = <<>>
  BY Nodes DEF Root
<1>2. PICK node : node = ram[Root]
  OBVIOUS
<1>3. PICK new : new = ram'[Root]
  OBVIOUS
<1>4. NodeOk(node, room[1]) /\ room[1] \in Nat
  BY <1>1, <1>2 DEF TreeOk, NodesOk, RoomOf
<1>5. Total(node) \in Nat
  BY <1>4, PopFinds
<1>6. /\ ~pushFinish /\ ~popFinish => rootRead = node
      /\ load \in Nat /\ load <= MaxLoad
      /\ pushStage[1] # None => load = Total(node) + 1
      /\ popStage1[1] # None => Total(node) = load + 1
      /\ pushStage[1] = None /\ popStage1[1] = None => load = Total(node)
      /\ popStage0[1] # None => load > 0
  BY <1>2 DEF TreeOk, RootOk
<1>7. /\ popStage0[1] # None => popStage1[1] = None /\ pushStage[1] = None
      /\ popStage1[1] # None => pushStage[1] = None
  BY <1>1 DEF Waves, OneStage
<1>8. Total(new) = load
  <2>1. CASE pushStage[1] # None
    <3>1. pushStage[1].addr = <<>>
      BY <1>1, <2>1, StageAt DEF TreeOk
    <3>2. AfterPush(room[1], <<>>, node, pushStage[1].word, new, PushRequest(1))
      BY <1>1, <1>2, <1>3, <2>1, <3>1, PushStep DEF PushAt
    <3> QED  BY <1>6, <2>1, <3>2 DEF AfterPush
  <2>2. CASE popStage1[1] # None
    <3>1. popStage1[1] = <<>>
      BY <1>1, <2>2, StageAt DEF TreeOk
    <3>2. Total(node) > 0
      BY <1>6, <2>2
    <3>3. AfterPop(room[1], node, new, ChildResp(1))
      BY <1>1, <1>2, <1>3, <3>1, <3>2, PopStep DEF PopAt
    <3>4. Total(new) = Total(node) - 1
      BY <3>3 DEF AfterPop
    <3> QED  BY <1>5, <1>6, <2>2, <3>4
  <2>3. CASE pushStage[1] = None /\ popStage1[1] = None
    <3>1. ~PushAt(1, <<>>) /\ ~PopAt(1, <<>>)
      BY <1>1, <2>3, NoneAssumption DEF PushAt, PopAt
    <3>2. new = node
      BY <1>1, <1>2, <1>3, <3>1, StillStep
    <3> QED  BY <1>6, <2>3, <3>2
  <2> QED  BY <2>1, <2>2, <2>3
<1>9. PICK pop \in {<<>>, None}, push \in [addr : {<<>>}, word : Word] \union {None} :
        /\ ClockStages(pop, push)
        /\ pop = None \/ push = None
        /\ pop # None \/ push # None => ~RootBusy
        /\ push = None \/ load < MaxLoad
        /\ pop = None \/ ~PifoEmpty
        /\ push = None => load' = load - Answered
        /\ push # None => load' = load + 1 - Answered
  BY CycleStages
<1>10. /\ popStage0'[1] = pop /\ pushStage'[1] = push /\ popStage1'[1] = popStage0[1]
       /\ pushFinish' = (pushStage[1] # None) /\ popFinish' = (popStage1[1] # None)
  BY <1>1, <1>9, NextStages DEF ClockStages
<1>11. /\ popStage0[1] # None => Answered = 1 /\ RootBusy
       /\ popStage0[1] = None => Answered = 0
  BY DEF Answered, RootBusy
<1>12. ~pushFinish' /\ ~popFinish' => rootRead' = new
  <2>1. ASSUME ~pushFinish', ~popFinish' PROVE rootRead' = new
    <3>1. pushStage[1] = None /\ popStage1[1] = None
      BY <1>10, <2>1
    <3>2. ~PushAt(1, <<>>) /\ ~PopAt(1, <<>>)
      BY <1>1, <3>1, NoneAssumption DEF PushAt, PopAt
    <3>3. new = node
      BY <1>1, <1>2, <1>3, <3>2, StillStep
    <3>4. rootRead' = node
      BY <1>2, CycleStages DEF ClockLevels
    <3> QED  BY <3>3, <3>4
  <2> QED  BY <2>1
<1>13. load' \in Nat /\ load' <= MaxLoad
  <2>1. CASE popStage0[1] # None
    <3>1. load' = load - 1
      BY <1>9, <1>11, <2>1
    <3> QED  BY <1>6, <2>1, <3>1, LoadAssumption
  <2>2. CASE popStage0[1] = None
    <3>1. CASE push = None
      BY <1>6, <1>9, <1>11, <2>2, <3>1
    <3>2. CASE push # None
      BY <1>6, <1>9, <1>11, <2>2, <3>2, LoadAssumption
    <3> QED  BY <3>1, <3>2
  <2> QED  BY <2>1, <2>2
<1>14. pushStage'[1] # None => load' = Total(new) + 1
  BY <1>6, <1>8, <1>9, <1>10, <1>11
<1>15. popStage1'[1] # None => Total(new) = load' + 1
  BY <1>6, <1>8, <1>9, <1>10, <1>11
<1>16. pushStage'[1] = None /\ popStage1'[1] = None => load' = Total(new)
  BY <1>6, <1>8, <1>9, <1>10, <1>11
<1>17. popStage0'[1] # None => load' > 0
  <2>1. ASSUME pop # None PROVE load' > 0
    <3>1. ~RootBusy /\ ~PifoEmpty /\ push = None
      BY <1>9, <2>1
    <3>2. rootRead = node /\ load = Total(node)
      BY <1>6, <3>1 DEF RootBusy
    <3>3. ~ \A v \in Way : node[v].cnt = 0
      BY <3>1, <3>2 DEF PifoEmpty
    <3>4. Total(node) # 0
      BY <1>4, <3>3, PopFinds
    <3>5. load' = load
      BY <1>6, <1>9, <1>11, <3>1
    <3> QED  BY <1>5, <3>2, <3>4, <3>5
  <2> QED  BY <1>10, <2>1
<1>18. (ram[Root])' = new /\ (Total(ram[Root]))' = Total(new)
  BY <1>3 DEF Root, Total, Counted
<1> QED  BY <1>12, <1>13, <1>14, <1>15, <1>16, <1>17, <1>18 DEF RootOk

(* A cycle keeps the invariant of the tree.                                *)
LEMMA TreeKept ==
    ASSUME NEW room, RoomOf(room)
    PROVE  TreeOk(room) /\ Waves /\ [Next]_vars => TreeOk(room)'
<1>1. ASSUME TreeOk(room), UNCHANGED vars PROVE TreeOk(room)'
  <2> USE <1>1 DEF vars, pipeVars, TreeOk
  <2>1. StageTypes'
    BY DEF StageTypes
  <2>2. NodesOk(room)'
    BY DEF NodesOk, NodeOk, NodeType, Marked, Capped
  <2>3. Below'
    <3>1. ASSUME NEW l \in Level, PairOk(l) PROVE PairOk(l)'
      BY <3>1 DEF PairOk, MinDataPort, LeastWay
    <3>2. ASSUME NEW l \in Level, NEW a \in Addr(l), NEW w \in Way, EdgeOk(l, a, w)
          PROVE  EdgeOk(l, a, w)'
      BY <3>2 DEF EdgeOk, CountOk, HeapOk, PushAt, PopAt, Total, Counted
    <3> QED  BY <3>1, <3>2 DEF Below
  <2>4. RootOk'
    BY DEF RootOk, Root, Total, Counted
  <2> QED  BY <2>1, <2>2, <2>3, <2>4
<1>2. ASSUME TreeOk(room), Waves, Next PROVE TreeOk(room)'
  <2>1. Below'
    BY <1>2, EdgeStep, PairStep DEF Below
  <2> QED  BY <1>2, <2>1, StagesStep, NodesStep, RootStep DEF TreeOk
<1> QED  BY <1>1, <1>2

(* The empty tree has it.                                                  *)
LEMMA TreeInit ==
    ASSUME NEW room, RoomOf(room), Init
    PROVE  TreeOk(room)
<1>1. \A n \in Node : ram[n] = EmptyNode
  BY DEF Init
<1>2. NodeOk(EmptyNode, 0) /\ Total(EmptyNode) = 0
      /\ \A v \in Way : EmptyNode[v] = [word |-> EmptyWord, cnt |-> 0]
  <2>1. \A v \in Way : EmptyNode[v] = [word |-> EmptyWord, cnt |-> 0]
    BY DEF EmptyNode, Entry
  <2>2. EmptyNode \in NodeType
    BY <2>1 DEF EmptyNode, Entry, NodeType
  <2>3. NodeOk(EmptyNode, 0)
    BY <2>1, <2>2 DEF NodeOk, Marked, Capped
  <2>4. Total(EmptyNode) = 0
    BY <2>1, <2>3, PopFinds
  <2> QED  BY <2>1, <2>3, <2>4
<1>3. \A l \in Level : room[l] \in Nat
  BY DEF RoomOf
<1>4. \A l \in Level : \A a \in Addr(l) : NodeOk(ram[<<l, a>>], room[l])
  <2> SUFFICES ASSUME NEW l \in Level, NEW a \in Addr(l) PROVE NodeOk(ram[<<l, a>>], room[l])
    OBVIOUS
  <2>1. ram[<<l, a>>] = EmptyNode /\ room[l] \in Nat
    BY <1>1, <1>3, Nodes
  <2>2. Capped(EmptyNode, room[l])
    BY <1>2, <2>1 DEF Capped
  <2> QED  BY <1>2, <2>1, <2>2 DEF NodeOk
<1>5. NodesOk(room)
  BY <1>2, <1>4 DEF NodesOk, NodeOk, Init
<1>6. StageTypes
  BY DEF Init, StageTypes
<1>7. ASSUME NEW l \in Level, l < Levels, NEW a \in Addr(l), NEW w \in Way
      PROVE  EdgeOk(l, a, w)
  <2>1. PICK c : c = ChildAddr(a, w)
    OBVIOUS
  <2>2. l + 1 \in Level /\ c \in Addr(l + 1)
    BY <1>7, <2>1, ChildIn
  <2>3. ram[<<l, a>>] = EmptyNode /\ ram[<<l + 1, c>>] = EmptyNode
    BY <1>1, <2>2, Nodes
  <2>4. ~PushAt(l + 1, c)
    BY <2>2 DEF Init, PushAt
  <2>5. HeapOk(EmptyWord, EmptyNode)
    BY <1>2, Ranks, RankAssumption DEF HeapOk
  <2> QED  BY <1>2, <2>1, <2>3, <2>4, <2>5 DEF EdgeOk, CountOk
<1>8. \A l \in Level : PairOk(l)
  BY DEF Init, PairOk
<1>9. RootOk
  BY <1>1, <1>2, Nodes, LoadAssumption DEF Init, RootOk
<1> QED  BY <1>5, <1>6, <1>7, <1>8, <1>9 DEF TreeOk, Below

(* The tree has room for as many words as may be outstanding.              *)
Fits == \E room : RoomOf(room)

(* It holds in all states, if there is room.                               *)
LEMMA TreeInvariant ==
    ASSUME NEW room, RoomOf(room)
    PROVE  Spec => [](TreeOk(room) /\ Waves)
<1>1. Init => TreeOk(room)
  BY TreeInit
<1>2. TreeOk(room) /\ Waves /\ [Next]_vars => TreeOk(room)'
  BY TreeKept
<1> QED  BY <1>1, <1>2, WavesInit, WavesKept, PTL DEF Spec

(* Pifo_Empty, computed from a copy of the root that is one cycle old (the *)
(* read port of PIFO_SRAM_Level_1.sv), is right in every cycle in which    *)
(* the root may accept an operation: no pop finds an empty tree and no     *)
(* word is left behind, if the tree has room for what may be outstanding.  *)
THEOREM EmptyFlagTrue == Fits => (Spec => []EmptyFlagExact)
<1> SUFFICES ASSUME Fits PROVE Spec => []EmptyFlagExact
  OBVIOUS
<1>1. PICK room : RoomOf(room)
  BY DEF Fits
<1>2. TreeOk(room) /\ Waves => EmptyFlagExact
  <2> SUFFICES ASSUME TreeOk(room), ~RootBusy PROVE PifoEmpty <=> load = 0
    BY DEF EmptyFlagExact
  <2>1. PICK node : node = ram[Root]
    OBVIOUS
  <2>2. rootRead = node /\ load = Total(node)
    BY <2>1 DEF TreeOk, RootOk, RootBusy
  <2>3. NodeOk(node, room[1]) /\ room[1] \in Nat
    BY <1>1, <2>1, Nodes DEF TreeOk, NodesOk, RoomOf, Root
  <2>4. Total(node) = 0 <=> \A v \in Way : node[v].cnt = 0
    BY <2>3, PopFinds
  <2> QED  BY <2>2, <2>4 DEF PifoEmpty
<1> QED  BY <1>1, <1>2, TreeInvariant, PTL

(* Whenever no wave is under way, each counter is the number of words in   *)
(* and below its way, an empty way has nothing below it, and no word is    *)
(* less than a word above it, although pushes follow counters, pops follow *)
(* ranks, and a new wave starts while older ones still run.                *)
THEOREM TreeIsHeap == Fits => (Spec => []HeapExact)
<1> SUFFICES ASSUME Fits PROVE Spec => []HeapExact
  OBVIOUS
<1>1. PICK room : RoomOf(room)
  BY DEF Fits
<1>2. TreeOk(room) /\ Waves => HeapExact
  <2> SUFFICES ASSUME TreeOk(room), Quiet, NEW n \in Node, NEW w \in Way
               PROVE  /\ ram[n][w].cnt =
                           IF ram[n][w].word = EmptyWord THEN 0 ELSE 1 + CountBelow(n, w)
                      /\ n[1] < Levels =>
                           \A v \in Way : ram[n][w].word.rank <= ram[Child(n, w)][v].word.rank
    BY DEF HeapExact
  <2>1. PICK l \in Level : \E a \in Addr(l) : n = <<l, a>>
    BY Nodes
  <2>2. PICK a \in Addr(l) : n = <<l, a>>
    BY <2>1
  <2>3. PICK node : node = ram[n]
    OBVIOUS
  <2>4. NodeOk(node, room[l])
    BY <2>2, <2>3 DEF TreeOk, NodesOk
  <2>5. /\ node[w].cnt = 0 <=> node[w].word = EmptyWord
        /\ node[w].cnt \in Nat /\ node[w].cnt <= room[l]
    BY <2>4, Ranks DEF NodeOk, Marked, Capped
  <2>6. CASE l = Levels
    <3>1. room[l] = 1 /\ CountBelow(n, w) = 0 /\ n[1] = Levels
      BY <1>1, <2>2, <2>6 DEF RoomOf, CountBelow
    <3> QED  BY <2>3, <2>5, <3>1, LevelsAssumption
  <2>7. CASE l # Levels
    <3>1. l < Levels /\ n[1] = l /\ n[2] = a
      BY <2>2, <2>7, LevelsAssumption DEF Level
    <3>2. PICK m \in Level : m = l + 1
      BY <3>1, LevelsAssumption DEF Level
    <3>3. PICK c \in Addr(m) : c = ChildAddr(a, w)
      BY <3>2, ChildIn
    <3>4. PICK child : child = ram[<<m, c>>]
      OBVIOUS
    <3>5. Child(n, w) = <<m, c>> /\ CountBelow(n, w) = Total(child)
      BY <2>7, <3>1, <3>2, <3>3, <3>4 DEF Child, CountBelow, Total
    <3>6. ~PushAt(m, c) /\ ~PopAt(m, c)
      <4>1. Stages(m) = {}
        BY DEF Quiet
      <4>2. popStage1[m] = None /\ pushStage[m] = None
        BY <4>1 DEF Stages
      <4> QED  BY <4>2, NoneAssumption DEF PushAt, PopAt
    <3>7. EdgeOk(l, a, w)
      BY <3>1 DEF TreeOk, Below
    <3>8. /\ CountOk(node[w].cnt, Total(child), PushAt(m, c), PopAt(m, c))
          /\ HeapOk(node[w].word, child)
      BY <2>2, <2>3, <3>2, <3>3, <3>4, <3>7 DEF EdgeOk
    <3>9. node[w].cnt # 0 => node[w].cnt = 1 + Total(child)
      BY <3>6, <3>8 DEF CountOk
    <3> QED  BY <2>3, <2>5, <3>4, <3>5, <3>8, <3>9 DEF HeapOk
  <2> QED  BY <2>6, <2>7
<1> QED  BY <1>1, <1>2, TreeInvariant, PTL
=============================================================================
