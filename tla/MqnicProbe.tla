----------------------------- MODULE MqnicProbe -----------------------------
(***************************************************************************)
(* How the Python driver finds out what is in a device (mqnic.py:          *)
(* RegBlockList, Driver.init_common, Interface.init, Port.init).  The      *)
(* hardware describes itself by lists of register blocks, each with a type *)
(* and a pointer to the next: one list for the device, one for each        *)
(* interface and one for each port.  The driver follows the pointers, asks *)
(* the lists for the blocks that it needs, and goes on from what their     *)
(* registers say.  Nothing of this changes the device.                     *)
(***************************************************************************)
EXTENDS Integers, Sequences, FiniteSets, SequencesExt

CONSTANTS
    Devices,        \* what may be there: for each window and offset a block
    CsrOffset,      \* if_csr_offset, where the list of an interface begins
    Needed,         \* types of which an interface must have a block
    None

(* The window of the device is 0 and that of its k-th interface is k.  A   *)
(* block has a type, a pointer to the next block, and a register: the      *)
(* number of interfaces, the number of ports, or where the list of the     *)
(* port begins.                                                            *)
ASSUME DevicesAssumption ==
    \A d \in Devices : \A w \in DOMAIN d : \A o \in DOMAIN d[w] :
        /\ DOMAIN d[w][o] = {"type", "next", "reg"}
        /\ d[w][o].next \in Nat /\ d[w][o].reg \in Nat

(* Whatever the driver reads is there: all memory of a window can be read, *)
(* and a device that says it has n interfaces has n windows.  A pointer    *)
(* that is not aligned is not followed.                                    *)
ASSUME ReadableAssumption ==
    \A d \in Devices :
        /\ 0 \in DOMAIN d /\ 0 \in DOMAIN d[0]
        /\ \A w \in DOMAIN d \ {0} : CsrOffset \in DOMAIN d[w]
        /\ \A w \in DOMAIN d : \A o \in DOMAIN d[w] :
            LET block == d[w][o] IN
            /\ block.next % 4 = 0 => block.next \in DOMAIN d[w] \union {0}
            /\ block.type = "PORT" => block.reg \in DOMAIN d[w]
            /\ block.type = "IF" => 1 .. block.reg \subseteq DOMAIN d

Outcome == {"assertion", "missing", "probed"}

(* Interface.init reads the registers of its control block *)
ASSUME NeededAssumption == "IF_CTRL" \in Needed /\ None \notin Outcome

VARIABLES
    device,         \* the device that is there
    task,           \* whose list is being read: <<>>, <<interface>> or <<interface, port>>
    at,             \* offset of the next block, 0 after the last
    blocks,         \* the blocks of this list so far
    ifCount,        \* if_count
    ifBlocks,       \* the list of the interface that is being set up
    ports,          \* the ports so far: interface and block
    outcome         \* None while probing

vars == <<device, task, at, blocks, ifCount, ifBlocks, ports, outcome>>

Window == IF task = <<>> THEN 0 ELSE task[1]
Aligned(o) == o % 4 = 0

Init ==
    /\ device \in Devices
    /\ task = <<>> /\ at = 0
    /\ blocks = <<>> /\ ifCount = 0 /\ ifBlocks = <<>> /\ ports = <<>>
    /\ outcome = None

-----------------------------------------------------------------------------
(* enumerate_reg_blocks, one turn of its loop.  The list begins wherever   *)
(* the caller says, at offset 0 too; only as a pointer is 0 the end.       *)
Listed == outcome = None /\ blocks # <<>> /\ at = 0
Loop(list, o) == \E i \in DOMAIN list : list[i] = o

Enumerate ==
    /\ outcome = None /\ ~Listed
    /\ blocks' = Append(blocks, at)
    /\ LET next == device[Window][at].next IN
       IF next # 0 /\ (~Aligned(next) \/ Loop(blocks', next))
       THEN outcome' = "assertion" /\ UNCHANGED at
       ELSE at' = next /\ UNCHANGED outcome
    /\ UNCHANGED <<device, task, ifCount, ifBlocks, ports>>

(* find: the block of the type before which the list has index others *)
OfType(w, list, type) == {i \in DOMAIN list : device[w][list[i]].type = type}
Before(w, list, type, i) == Cardinality(OfType(w, list, type) \intersect 1 .. i - 1)
Pick(list, hits) == IF hits = {} THEN None ELSE list[CHOOSE i \in hits : TRUE]
WrongFind(w, list, type, index) ==
    Pick(list, {i \in OfType(w, list, type) : Before(w, list, type, i) = 0})
Find(w, list, type, index) ==
    Pick(list, {i \in OfType(w, list, type) : Before(w, list, type, i) = index})

Reg(w, list, type) == device[w][Find(w, list, type, 0)].reg

-----------------------------------------------------------------------------
WrongBegin(t, o) == task' = t /\ at' = o /\ UNCHANGED <<blocks, outcome>>
Begin(t, o) == task' = t /\ at' = o /\ blocks' = <<>> /\ UNCHANGED outcome
End(how) == outcome' = how /\ UNCHANGED <<task, at, blocks>>

(* init_common goes to the next of its interfaces *)
BeginInterface(k, n) == IF k <= n THEN Begin(<<k>>, CsrOffset) ELSE End("probed")

(* Interface.init goes to its port p; without a block for it, it reads     *)
(* registers of None                                                       *)
BeginPort(k, p, list) ==
    IF p > Reg(k, list, "IF_CTRL") THEN BeginInterface(k + 1, ifCount)
    ELSE LET rb == Find(k, list, "PORT", p - 1) IN
         IF rb = None THEN End("missing") ELSE Begin(<<k, p>>, device[k][rb].reg)

DeviceListed ==
    /\ Listed /\ Len(task) = 0
    /\ ifCount' = IF Find(0, blocks, "IF", 0) = None THEN 0 ELSE Reg(0, blocks, "IF")
    /\ IF Find(0, blocks, "FW_ID", 0) = None
       THEN End("missing")
       ELSE BeginInterface(1, ifCount')
    /\ UNCHANGED <<device, ifBlocks, ports>>

InterfaceListed ==
    /\ Listed /\ Len(task) = 1
    /\ ifBlocks' = blocks
    /\ IF \E t \in Needed : Find(task[1], blocks, t, 0) = None
       THEN End("missing")
       ELSE BeginPort(task[1], 1, blocks)
    /\ UNCHANGED <<device, ifCount, ports>>

PortListed ==
    /\ Listed /\ Len(task) = 2
    /\ LET k == task[1]
           p == task[2] IN
       IF Find(k, blocks, "PORT_CTRL", 0) = None
       THEN End("missing") /\ UNCHANGED ports
       ELSE /\ ports' = Append(ports, [if |-> k, rb |-> Find(k, ifBlocks, "PORT", p - 1)])
            /\ BeginPort(k, p + 1, ifBlocks)
    /\ UNCHANGED <<device, ifCount, ifBlocks>>

Next == Enumerate \/ DeviceListed \/ InterfaceListed \/ PortListed

Spec == Init /\ [][Next]_vars

-----------------------------------------------------------------------------
Start ==
    IF Len(task) = 0 THEN 0
    ELSE IF Len(task) = 1 THEN CsrOffset
    ELSE device[task[1]][Find(task[1], ifBlocks, "PORT", task[2] - 1)].reg

(* What a list is, said without following it: the smallest set of blocks   *)
(* that holds the first and is closed under the pointers.                  *)
Closed(w, start, S) ==
    start \in S /\ \A o \in S : device[w][o].next # 0 => device[w][o].next \in S
Chain(w, start) ==
    CHOOSE S \in SUBSET DOMAIN device[w] :
        Closed(w, start, S) /\ \A T \in SUBSET S : Closed(w, start, T) => T = S

(* A list that has been read to its end holds every block that its         *)
(* pointers lead to and ends where a pointer is 0: nothing is skipped and  *)
(* nothing of another list is kept.  A list that leads back into itself is *)
(* noticed before any block is read again, so that probing ends whatever   *)
(* the pointers of the device are (enumerate_reg_blocks).                  *)
ListsExact ==
    /\ Listed =>
        /\ ToSet(blocks) = Chain(Window, Start)
        /\ device[Window][blocks[Len(blocks)]].next = 0
    /\ Cardinality(ToSet(blocks)) = Len(blocks)

(* The ports of an interface, and whether they are as many as it says *)
PortsOf(k) == {i \in DOMAIN ports : ports[i].if = k}
Equipped(k) ==
    \E o \in Chain(k, CsrOffset) :
        device[k][o].type = "IF_CTRL" /\ device[k][o].reg = Cardinality(PortsOf(k))

(* No two ports of an interface share a block, and each block is of a port *)
PortsDistinct ==
    /\ \A i, j \in DOMAIN ports :
            ports[i].if = ports[j].if /\ ports[i].rb = ports[j].rb => i = j
    /\ \A p \in ToSet(ports) : device[p.if][p.rb].type = "PORT"

(* Each port has a block of its own and of the right type, and a device    *)
(* that has been probed has all its ports: as many as the control blocks   *)
(* of its interfaces say (find with index=k, Interface.init).              *)
PortsComplete ==
    /\ PortsDistinct
    /\ outcome = "probed" => \A k \in 1 .. ifCount : Equipped(k)
=============================================================================
