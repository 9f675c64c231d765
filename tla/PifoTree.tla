------------------------------ MODULE PifoTree ------------------------------
(***************************************************************************)
(* The PIFO of rtl/Pifo_Sram: a complete tree of nodes with Ways words     *)
(* each, one SRAM per level.  PIFO_SRAM_Level_1 is the root and the only   *)
(* level with a handshake; the levels below (PIFO_SRAM_Level_other) take   *)
(* whatever the level above sends, one clock cycle later, so that a push   *)
(* or a pop runs down the tree like a wave while the root may already      *)
(* accept the next.                                                        *)
(*                                                                         *)
(* One step of the model is one clock cycle.  The request side of tx_engine*)
(* (one pop outstanding) and the response register are part of the model;  *)
(* what may be pushed is bounded by MaxLoad, the number of queues that can *)
(* have a token in the scheduler (OneToken of module DoorbellRing).        *)
(***************************************************************************)
EXTENDS Naturals, Sequences, FiniteSets, Bags

CONSTANTS
    Ways,       \* words per node (4 in the code)
    Levels,     \* LEVEL_TOTAL
    MaxRank,    \* the rank of all ones, which marks an empty way
    Meta,       \* the meta data of words
    ZeroMeta,   \* meta data of all zeros
    MaxLoad,    \* the most words that may be outstanding
    None        \* an idle pipeline stage

ASSUME WaysAssumption == Ways \in Nat /\ Ways >= 2
ASSUME LevelsAssumption == Levels \in Nat /\ Levels >= 2
ASSUME RankAssumption == MaxRank \in Nat \ {0}
ASSUME MetaAssumption == ZeroMeta \in Meta
ASSUME LoadAssumption == MaxLoad \in Nat

VARIABLES
    ram,            \* the SRAM of each level: words and counters of its nodes
    rootRead,       \* ram_read_data of the root: its node one cycle ago
    popStage0,      \* per level, the node whose least word leaves (Pop_Req_pipe_0)
    popStage1,      \* per level, the node to refill (Pop_Req_pipe_1)
    pushStage,      \* per level, the node and word being inserted (Push_Req_pipe)
    popFinish,      \* Pop_Finish_pipe of the root
    pushFinish,     \* Push_Finish_pipe of the root
    respValid,      \* Top_Pop_resp_valid
    respData,       \* Top_Pop_resp_Data
    reqPending,     \* tx_req_pending of tx_engine, from the pop's acceptance
    load            \* words pushed and not yet answered

pipeVars == <<popStage0, popStage1, pushStage, popFinish, pushFinish>>
vars == <<ram, rootRead, pipeVars, respValid, respData, reqPending, load>>

-----------------------------------------------------------------------------
Level == 1 .. Levels
Way == 0 .. Ways - 1

(* The address of a node has a digit for every level above it, the way     *)
(* that leads to it there (two bits in the code): 4 * addr + way appends.  *)
Addr(l) == [1 .. l - 1 -> Way]
ChildAddr(a, w) == Append(a, w)
Root == <<1, <<>>>>
Node == UNION {{l} \X Addr(l) : l \in Level}

Rank == 0 .. MaxRank - 1
Word == [rank : Rank, meta : Meta]
EmptyWord == [rank |-> MaxRank, meta |-> ZeroMeta]

(* What a stage holds can be told from nothing. *)
ASSUME NoneAssumption ==
    \A l \in Level : None \notin Addr(l) /\ None \notin [addr : Addr(l), word : Word]

Entry(word, cnt) == [word |-> word, cnt |-> cnt]
EmptyNode == [w \in Way |-> Entry(EmptyWord, 0)]

(* The node an operation at a level works on, as its SRAM read port shows  *)
(* it.  Below the root the port repeats the read of an unchanged address,  *)
(* and no write comes between (NothingOverrun).                            *)
Read(l, a) == IF l = 1 THEN rootRead ELSE ram[<<l, a>>]

(* Min_data_port and Min_sub_tree: ties go to the lowest way.              *)
LeastWay(key) ==
    CHOOSE w \in Way : \A v \in Way : key[w] < key[v] \/ (key[w] = key[v] /\ w <= v)
WrongMinDataPort(node) == LeastWay([w \in Way |-> MaxRank - node[w].word.rank])
MinDataPort(node) == LeastWay([w \in Way |-> node[w].word.rank])
WrongMinSubTree(node) == MinDataPort(node)
MinSubTree(node) == LeastWay([w \in Way |-> node[w].cnt])

LeastWord(l, a) == Read(l, a)[MinDataPort(Read(l, a))].word

PifoEmpty == \A w \in Way : rootRead[w].cnt = 0

(* The root accepts nothing while an operation is in its stages or has     *)
(* finished in the cycle before.                                           *)
WrongRootBusy ==
    popStage0[1] # None \/ popStage1[1] # None \/ pushStage[1] # None \/ pushFinish
LooseRootBusy == pushFinish \/ popFinish
RootBusy ==
    \/ popStage0[1] # None \/ popStage1[1] # None \/ pushStage[1] # None
    \/ pushFinish \/ popFinish

(* tx_engine asks for a word only when no earlier request is unanswered.   *)
PopAsked == ~reqPending

-----------------------------------------------------------------------------
(* What a level sends down in this cycle.                                  *)
PopRequest(l) ==
    IF popStage0[l] = None THEN None
    ELSE ChildAddr(popStage0[l], MinDataPort(Read(l, popStage0[l])))

(* Of the pushed word and the word of the chosen way, the lesser stays and *)
(* the other goes down, unless the way was empty.                          *)
Insertion(l) ==
    LET node == Read(l, pushStage[l].addr)
        way == MinSubTree(node)
        old == node[way].word
        new == pushStage[l].word
    IN  [way |-> way,
         stays |-> IF old.rank <= new.rank THEN old ELSE new,
         goes |-> IF old.rank > new.rank THEN old ELSE new,
         down |-> old.rank # MaxRank,
         cnt |-> node[way].cnt + 1]

PushRequest(l) ==
    IF pushStage[l] = None \/ ~Insertion(l).down THEN None
    ELSE [addr |-> ChildAddr(pushStage[l].addr, Insertion(l).way),
          word |-> Insertion(l).goes]

(* The word the level below gives up in this cycle; zeros when it has none *)
(* to give, and below the last level the empty word.                       *)
ChildResp(l) ==
    IF l = Levels THEN EmptyWord
    ELSE IF popStage0[l + 1] = None THEN [rank |-> 0, meta |-> ZeroMeta]
    ELSE LeastWord(l + 1, popStage0[l + 1])

(* The write of a level's SRAM in this cycle: a set of at most one node.   *)
Refill(l) ==
    LET a == popStage1[l]
        node == Read(l, a)
        way == MinDataPort(node)
        cnt == node[way].cnt - 1
    IN  IF a = None \/ node[way].cnt = 0 THEN {}
        ELSE {[node |-> <<l, a>>, way |-> way,
               entry |-> Entry(IF cnt = 0 THEN EmptyWord ELSE ChildResp(l), cnt)]}
Insert(l) ==
    IF pushStage[l] = None THEN {}
    ELSE {[node |-> <<l, pushStage[l].addr>>, way |-> Insertion(l).way,
           entry |-> Entry(Insertion(l).stays, Insertion(l).cnt)]}
Writes == UNION {IF Insert(l) # {} THEN Insert(l) ELSE Refill(l) : l \in Level}

(* Every register below the root, and every SRAM, takes its next value.    *)
(* A level that is sent a pop and a push takes the pop only.               *)
ClockLevels ==
    /\ ram' = [n \in Node |->
                 IF \E x \in Writes : x.node = n
                   THEN LET x == CHOOSE x \in Writes : x.node = n
                        IN  [ram[n] EXCEPT ![x.way] = x.entry]
                   ELSE ram[n]]
    /\ rootRead' = ram[Root]
    /\ popStage1' = popStage0
    /\ pushFinish' = (pushStage[1] # None)
    /\ popFinish' = (popStage1[1] # None)

(* The root takes pop, push, or neither into its first stage.              *)
ClockStages(rootPop, rootPush) ==
    /\ popStage0' = [l \in Level |-> IF l = 1 THEN rootPop ELSE PopRequest(l - 1)]
    /\ pushStage' = [l \in Level |->
                       IF l = 1 THEN rootPush
                       ELSE IF PopRequest(l - 1) # None THEN None
                       ELSE PushRequest(l - 1)]

(* Top_Pop_resp is set when the root's least word is read, and otherwise   *)
(* kept until tx_engine is ready for it.                                   *)
ClockResponse(ready) ==
    /\ respValid' = (popStage0[1] # None \/ (respValid /\ ~ready))
    /\ respData' = IF popStage0[1] # None THEN LeastWord(1, <<>>) ELSE respData

Init ==
    /\ ram = [n \in Node |-> EmptyNode]
    /\ rootRead = EmptyNode
    /\ popStage0 = [l \in Level |-> None]
    /\ popStage1 = [l \in Level |-> None]
    /\ pushStage = [l \in Level |-> None]
    /\ popFinish = FALSE /\ pushFinish = FALSE
    /\ respValid = FALSE /\ respData = EmptyWord
    /\ reqPending = FALSE
    /\ load = 0

Answered == IF popStage0[1] # None THEN 1 ELSE 0

(* A cycle in which the root accepts a pop.                                *)
ClockPop(ready) ==
    /\ ~RootBusy /\ ~PifoEmpty /\ PopAsked
    /\ ClockLevels /\ ClockStages(<<>>, None) /\ ClockResponse(ready)
    /\ reqPending' = TRUE
    /\ load' = load - Answered

(* A cycle in which the root accepts a word.                               *)
ClockPush(w, ready) ==
    /\ ~RootBusy /\ load < MaxLoad
    /\ ClockLevels /\ ClockStages(None, [addr |-> <<>>, word |-> w])
    /\ ClockResponse(ready)
    /\ reqPending' = (reqPending /\ ~(respValid /\ ready))
    /\ load' = load + 1 - Answered

(* A cycle in which the root accepts nothing.                              *)
ClockIdle(ready) ==
    /\ ClockLevels /\ ClockStages(None, None) /\ ClockResponse(ready)
    /\ reqPending' = (reqPending /\ ~(respValid /\ ready))
    /\ load' = load - Answered

Next ==
    \E ready \in BOOLEAN :
        \/ ClockPop(ready)
        \/ \E w \in Word : ClockPush(w, ready)
        \/ ClockIdle(ready)

Spec == Init /\ [][Next]_vars

-----------------------------------------------------------------------------
(* The root's handshake alone keeps the levels below, which have none, from*)
(* ever being asked for a second operation while one is under way: a push  *)
(* and a pop never reach a level in the same cycle (the push would be      *)
(* dropped, PIFO_SRAM_Level_other.sv 238-248), and no level reads a node   *)
(* in the cycle in which it writes.  Nor is a response produced before the *)
(* last one has been consumed.                                             *)
Stages(l) == {i \in 1 .. 3 : <<popStage0[l], popStage1[l], pushStage[l]>>[i] # None}

NothingOverrun ==
    /\ \A l \in Level :
        /\ Cardinality(Stages(l)) <= 1
        /\ l > 1 /\ (PopRequest(l - 1) # None \/ PushRequest(l - 1) # None) =>
             /\ Stages(l) = {}
             /\ PopRequest(l - 1) = None \/ PushRequest(l - 1) = None
    /\ ~(respValid /\ popStage0[1] # None)

(* Pifo_Empty is computed from a copy of the root that is one cycle old.   *)
(* Whenever the root may accept an operation it tells the truth: a wrong   *)
(* "not empty" would answer a pop with the empty word.                     *)
EmptyFlagExact == ~RootBusy => (PifoEmpty <=> load = 0)

(* Between waves the tree is a heap whose counters are exact.              *)
Quiet == \A l \in Level : Stages(l) = {}
Child(n, w) == <<n[1] + 1, ChildAddr(n[2], w)>>
Counted(node) == UNION {{v} \X (1 .. node[v].cnt) : v \in Way}
CountBelow(n, w) ==
    IF n[1] = Levels THEN 0 ELSE Cardinality(Counted(ram[Child(n, w)]))
HeapExact ==
    Quiet => \A n \in Node, w \in Way :
        /\ ram[n][w].cnt = IF ram[n][w].word = EmptyWord THEN 0 ELSE 1 + CountBelow(n, w)
        /\ n[1] < Levels =>
            \A v \in Way : ram[n][w].word.rank <= ram[Child(n, w)][v].word.rank

-----------------------------------------------------------------------------
(* The words in the tree at any cycle: those in the ways, except the one a *)
(* level has just given up and will overwrite in the next cycle, and those *)
(* on their way down.                                                      *)
GivenUp(n, w) == popStage1[n[1]] = n[2] /\ w = MinDataPort(Read(n[1], n[2]))
InWays == {x \in Node \X Way :
             ram[x[1]][x[2]].word.rank # MaxRank /\ ~GivenUp(x[1], x[2])}
InFlight == {l \in Level : pushStage[l] # None}
Held ==
    LET words == {ram[x[1]][x[2]].word : x \in InWays}
                   \union {pushStage[l].word : l \in InFlight}
    IN  [v \in words |->
           Cardinality({x \in InWays : ram[x[1]][x[2]].word = v})
           + Cardinality({l \in InFlight : pushStage[l].word = v})]

(* The tree implements the abstract queue: no word is lost or doubled on   *)
(* its way through the levels, and each pop is answered with a word of     *)
(* least rank among all words accepted before it.                          *)
Abstract == INSTANCE Pifo
              WITH Rank <- Rank, held <- Held, taken <- respData, NoWord <- EmptyWord
ImplementsPifo == Abstract!Spec

(* Every word pushed and not yet answered is in the tree.                  *)
EveryHeadHeld == BagCardinality(Held) = load
=============================================================================
