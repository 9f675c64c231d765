----------------------------- MODULE PifoTieBreak ---------------------------
(***************************************************************************)
(* How rtl/mqnic_interface_change.v uses the PIFO: a doorbell enters with  *)
(* the key {rank, global_ts}, so that doorbells of equal rank are told     *)
(* apart by the time stamp.  global_ts counts the words that have entered, *)
(* has TTW bits, and returns to zero when the PIFO becomes empty.          *)
(*                                                                         *)
(* The cycles are those of PifoTree; each also clocks the time stamp.      *)
(***************************************************************************)
EXTENDS PifoTree, Sequences

CONSTANTS
    HostRanks,      \* 2^RANK_WIDTH
    TsMod           \* 2^TTW

ASSUME KeyAssumption ==
    /\ HostRanks \in Nat \ {0} /\ TsMod \in Nat \ {0}
    /\ HostRanks * TsMod <= MaxRank

VARIABLES
    globalTs,       \* global_ts
    emptyBefore,    \* pifo_empty_d
    waiting         \* history: the words accepted and not yet answered, oldest
                    \* first; last says that global_ts has restarted after the
                    \* entry of this word and before that of the next

tieVars == <<vars, globalTs, emptyBefore, waiting>>

(* {tx_doorbell_rank, global_ts}                                           *)
Key(r) == r * TsMod + globalTs

(* The handshake with the PIFO is the cycle after a push is accepted.      *)
Handshake == pushStage[1] # None
EmptyRise == PifoEmpty /\ ~emptyBefore

WrongNextTs ==
    IF ~PifoEmpty /\ emptyBefore THEN 0
    ELSE IF Handshake THEN (globalTs + 1) % TsMod
    ELSE globalTs
NextTs ==
    IF EmptyRise THEN 0
    ELSE IF Handshake THEN (globalTs + 1) % TsMod
    ELSE globalTs

Restarts == EmptyRise \/ (Handshake /\ globalTs = TsMod - 1)

Leaves(x) == popStage0[1] # None /\ x.meta = LeastWord(1, <<>>).meta

(* A word that leaves hands its mark to the word before it, so that the    *)
(* words left are still told apart by the restarts between them.           *)
Wait(entered) ==
    LET handed == [i \in DOMAIN waiting |->
            [waiting[i] EXCEPT !.last = @ \/ \E j \in DOMAIN waiting :
                                  j = i + 1 /\ Leaves(waiting[j]) /\ waiting[j].last]]
        all == SelectSeq(handed, LAMBDA x : ~Leaves(x)) \o entered
    IN  [i \in DOMAIN all |-> [all[i] EXCEPT !.last = @ \/ (Restarts /\ i = Len(all))]]

ClockTs(entered) ==
    /\ emptyBefore' = PifoEmpty
    /\ globalTs' = NextTs
    /\ waiting' = Wait(entered)

TieInit ==
    /\ Init
    /\ globalTs = 0 /\ emptyBefore = FALSE /\ waiting = <<>>

(* A queue has one token in the PIFO at a time, so meta data tell the words*)
(* apart.                                                                  *)
TiePush(r, m, ready) ==
    /\ \A i \in DOMAIN waiting : waiting[i].meta # m
    /\ ClockPush([rank |-> Key(r), meta |-> m], ready)
    /\ ClockTs(<<[rank |-> r, meta |-> m, last |-> FALSE]>>)

TieNext ==
    \E ready \in BOOLEAN :
        \/ ClockPop(ready) /\ ClockTs(<<>>)
        \/ \E r \in 0 .. HostRanks - 1, m \in Meta : TiePush(r, m, ready)
        \/ ClockIdle(ready) /\ ClockTs(<<>>)

TieSpec == TieInit /\ [][TieNext]_tieVars

-----------------------------------------------------------------------------
SameRun(j, i) == \A k \in j .. i - 1 : ~waiting[k].last

(* The rank the host wrote decides first: no word leaves while one of      *)
(* lesser rank is in the PIFO.  Words of equal rank leave in the order they*)
(* entered, provided global_ts neither wrapped nor was reset between their *)
(* entries (mqnic_interface_change.v:2002-2013); what it did before the    *)
(* first or after the second, while both wait, makes no difference.  A word*)
(* may enter in the very cycle in which the PIFO is found empty (the reset *)
(* reads the flag one cycle late): it keeps a stamp of the time before the *)
(* reset, and a later word of its rank may overtake it.                    *)
RankThenEntry ==
    [][\A i, j \in DOMAIN waiting : Leaves(waiting[i]) =>
         /\ waiting[i].rank <= waiting[j].rank
         /\ j < i /\ SameRun(j, i) => waiting[i].rank # waiting[j].rank]_tieVars
=============================================================================
