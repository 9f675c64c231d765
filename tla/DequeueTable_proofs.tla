------------------------ MODULE DequeueTable_proofs -------------------------
(***************************************************************************)
(* The operation table of the transmit queue manager, for any number of    *)
(* queues and any sizes: it is a queue of slots, each queue remembers its  *)
(* newest slot, a commit of desc_fetch never reaches another operation     *)
(* than its own, and to the host and to desc_fetch each queue is a         *)
(* DescriptorRow.                                                          *)
(***************************************************************************)
EXTENDS DequeueTable, FiniteSetTheorems, SequenceTheorems, TLAPS

-----------------------------------------------------------------------------
(* The inductive invariant.                                                *)

Op == [kind : WriteKind \union {"commit", "req"}, queue : Queue, prod : Nat, cons : Nat,
       enabled : BOOLEAN, index : OpSlot, data : Nat]
Answer == [queue : Queue, ptr : Nat, slot : OpSlot, wqe : Nat \ {0},
           status : {"ok", "empty", "error"}]
Entry == [slot : OpSlot, first : BOOLEAN]

Typing ==
    /\ prodPtr \in [Queue -> Nat] /\ consPtr \in [Queue -> Nat]
    /\ enabled \in [Queue -> BOOLEAN] /\ opIndex \in [Queue -> OpSlot]
    /\ opActive \in [OpSlot -> BOOLEAN] /\ opCommit \in [OpSlot -> BOOLEAN]
    /\ opQueue \in [OpSlot -> Queue] /\ opPtr \in [OpSlot -> Nat]
    /\ startPtr \in OpSlot /\ finishPtr \in OpSlot
    /\ pipe \in Seq(Op)
    /\ resp \in Answer \union {None}
    /\ fetch \in Seq(Entry)

(* There is one request in the pipeline at most, and what AcceptReq found  *)
(* stays true until it is performed.                                       *)
HasRequest(ps) == \E i \in DOMAIN ps : ps[i].kind = "req"
OneRequest(ps) ==
    \A i \in DOMAIN ps : ps[i].kind = "req" =>
        /\ ps[i].data # 0
        /\ \A j \in DOMAIN ps : ps[j].kind = "req" => i = j
Idle == resp = None /\ Len(fetch) < DescTableSize /\ ~opActive[startPtr]
RequestFits == OneRequest(pipe) /\ (HasRequest(pipe) => Idle)

(* How far slot s is before the newest, when st is the next to be taken.   *)
Before(st, s) == (st + OpTableSize - 1 - s) % OpTableSize
Granted == resp # None /\ resp.status = "ok"

(* An answer is for the newest slot, which nothing has committed yet.      *)
Absent(es, s) == \A i \in DOMAIN es : es[i].slot # s
GrantFresh ==
    Granted =>
        /\ opActive[resp.slot] /\ ~opCommit[resp.slot]
        /\ Before(startPtr, resp.slot) = 0
        /\ Absent(fetch, resp.slot)

(* The entries of desc_fetch's table are of slots so new that the window   *)
(* cannot come round to them before they are read: entry i is of a slot no *)
(* older than there are entries after it and an answer to be entered.      *)
Near(es, st, slack) ==
    \A i \in DOMAIN es : Before(st, es[i].slot) <= Len(es) - i + slack
FetchNear ==
    /\ Granted => Near(fetch, startPtr, 1)
    /\ ~Granted => Near(fetch, startPtr, 0)

(* Each operation has one first entry; CommitsStayHome of any entries.     *)
FirstsApart(es) ==
    \A i, j \in DOMAIN es :
        es[i].first /\ es[j].first /\ es[i].slot = es[j].slot => i = j
Home(es, active, commit) ==
    \A i \in DOMAIN es :
        /\ es[i].first => active[es[i].slot] /\ ~commit[es[i].slot]
        /\ ~es[i].first =>
            \/ \E j \in 1 .. i - 1 : es[j].slot = es[i].slot /\ es[j].first
            \/ ~active[es[i].slot]
            \/ commit[es[i].slot]

IInv ==
    /\ Typing
    /\ TableIsQueue
    /\ RequestFits
    /\ GrantFresh
    /\ FetchNear
    /\ FirstsApart(fetch)
    /\ Home(fetch, opActive, opCommit)

-----------------------------------------------------------------------------
(* The sizes in the form the proofs use.                                   *)
LEMMA Sizes ==
    /\ OpTableSize \in Nat \ {0} /\ DescTableSize \in 1 .. OpTableSize
    /\ PtrMod \in Nat \ {0}
    /\ \A n \in Wqe : n \in Nat \ {0}
BY SizeAssumption, WqeAssumption

(* The size of the table, alone.                                           *)
LEMMA TableSize == OpTableSize \in Nat \ {0}
BY SizeAssumption

(* A remainder is smaller than the divisor.                                *)
LEMMA ModType ==
    ASSUME NEW m \in Nat \ {0}, NEW p \in Nat
    PROVE  p % m \in 0 .. m - 1
OBVIOUS

(* The remainder of what is less than twice the divisor.                   *)
LEMMA ModValue ==
    ASSUME NEW m \in Nat \ {0}, NEW r \in 0 .. m - 1
    PROVE  r % m = r /\ (r + m) % m = r
OBVIOUS

(* The same by cases.                                                      *)
LEMMA ModCases ==
    ASSUME NEW m \in Nat \ {0}, NEW p \in Nat, p < m + m
    PROVE  /\ p < m => p % m = p
           /\ m <= p => p % m = p - m
<1>1. CASE p < m
  BY <1>1, ModValue
<1>2. CASE ~(p < m)
  <2> DEFINE r == p - m
  <2>1. r \in 0 .. m - 1 /\ p = r + m
    BY <1>2
  <2>2. (r + m) % m = r
    BY <2>1, ModValue
  <2> QED  BY <1>2, <2>1, <2>2
<1> QED  BY <1>1, <1>2

(* The slot after the last is the first.                                   *)
LEMMA NextSlotValue ==
    ASSUME NEW s \in OpSlot
    PROVE  NextSlot(s) = IF s = OpTableSize - 1 THEN 0 ELSE s + 1
<1> DEFINE p == s + 1
<1>1. p \in Nat /\ p < OpTableSize + OpTableSize
  BY TableSize DEF OpSlot
<1> HIDE DEF p
<1>2. /\ p < OpTableSize => p % OpTableSize = p
      /\ OpTableSize <= p => p % OpTableSize = p - OpTableSize
  BY <1>1, TableSize, ModCases
<1> QED  BY <1>1, <1>2, TableSize DEF p, NextSlot, OpSlot

(* It is a slot.                                                           *)
LEMMA NextSlotType ==
    ASSUME NEW s \in OpSlot
    PROVE  NextSlot(s) \in OpSlot
BY NextSlotValue, TableSize DEF OpSlot

(* How far slot s is after slot f.                                         *)
After(f, s) == (s + OpTableSize - f) % OpTableSize

(* That distance without the remainder.                                    *)
LEMMA AfterValue ==
    ASSUME NEW f \in OpSlot, NEW s \in OpSlot
    PROVE  After(f, s) = IF f <= s THEN s - f ELSE s + OpTableSize - f
<1> DEFINE p == s + OpTableSize - f
<1>1. p \in Nat /\ p < OpTableSize + OpTableSize
  BY TableSize DEF OpSlot
<1> HIDE DEF p
<1>2. /\ p < OpTableSize => p % OpTableSize = p
      /\ OpTableSize <= p => p % OpTableSize = p - OpTableSize
  BY <1>1, TableSize, ModCases
<1> QED  BY <1>1, <1>2, TableSize DEF p, After, OpSlot

(* The same of Before.                                                     *)
LEMMA BeforeValue ==
    ASSUME NEW st \in OpSlot, NEW s \in OpSlot
    PROVE  Before(st, s) = IF s < st THEN st - 1 - s ELSE st + OpTableSize - 1 - s
<1> DEFINE p == st + OpTableSize - 1 - s
<1>1. p \in Nat /\ p < OpTableSize + OpTableSize
  BY TableSize DEF OpSlot
<1> HIDE DEF p
<1>2. /\ p < OpTableSize => p % OpTableSize = p
      /\ OpTableSize <= p => p % OpTableSize = p - OpTableSize
  BY <1>1, TableSize, ModCases
<1> QED  BY <1>1, <1>2, TableSize DEF p, Before, OpSlot

(* The slot n after f.                                                     *)
LEMMA SlotAfter ==
    ASSUME NEW f \in OpSlot, NEW n \in 0 .. OpTableSize
    PROVE  (f + n) % OpTableSize = IF f + n < OpTableSize THEN f + n ELSE f + n - OpTableSize
<1> DEFINE p == f + n
<1>1. p \in Nat /\ p < OpTableSize + OpTableSize
  BY TableSize DEF OpSlot
<1> HIDE DEF p
<1>2. /\ p < OpTableSize => p % OpTableSize = p
      /\ OpTableSize <= p => p % OpTableSize = p - OpTableSize
  BY <1>1, TableSize, ModCases
<1> QED  BY <1>1, <1>2, TableSize DEF p, OpSlot

(* The oldest slot leaves the window: every other is one nearer to the     *)
(* front.                                                                  *)
LEMMA WindowShrinks ==
    ASSUME NEW f \in OpSlot, NEW n \in 1 .. OpTableSize
    PROVE  /\ NextSlot(f) \in OpSlot
           /\ (NextSlot(f) + (n - 1)) % OpTableSize = (f + n) % OpTableSize
           /\ After(f, f) = 0
           /\ \A s \in OpSlot : s # f =>
                After(f, s) > 0 /\ After(NextSlot(f), s) = After(f, s) - 1
           /\ After(NextSlot(f), f) = OpTableSize - 1
<1>1. NextSlot(f) \in OpSlot
  BY NextSlotValue, Sizes DEF OpSlot
<1>2. (NextSlot(f) + (n - 1)) % OpTableSize = (f + n) % OpTableSize
  <2>1. n - 1 \in 0 .. OpTableSize /\ n \in 0 .. OpTableSize
    BY Sizes
  <2>2. (NextSlot(f) + (n - 1)) % OpTableSize =
           IF NextSlot(f) + (n - 1) < OpTableSize THEN NextSlot(f) + (n - 1)
           ELSE NextSlot(f) + (n - 1) - OpTableSize
    BY <1>1, <2>1, SlotAfter
  <2>3. (f + n) % OpTableSize = IF f + n < OpTableSize THEN f + n ELSE f + n - OpTableSize
    BY <2>1, SlotAfter
  <2> QED  BY <2>2, <2>3, NextSlotValue, Sizes DEF OpSlot
<1>3. After(f, f) = 0
  BY AfterValue, Sizes DEF OpSlot
<1>4. ASSUME NEW s \in OpSlot, s # f
      PROVE  After(f, s) > 0 /\ After(NextSlot(f), s) = After(f, s) - 1
  <2>1. After(f, s) = IF f <= s THEN s - f ELSE s + OpTableSize - f
    BY AfterValue
  <2>2. After(NextSlot(f), s) =
          IF NextSlot(f) <= s THEN s - NextSlot(f) ELSE s + OpTableSize - NextSlot(f)
    BY <1>1, AfterValue
  <2> QED  BY <1>4, <2>1, <2>2, NextSlotValue, Sizes DEF OpSlot
<1>5. After(NextSlot(f), f) = OpTableSize - 1
  <2>1. After(NextSlot(f), f) =
          IF NextSlot(f) <= f THEN f - NextSlot(f) ELSE f + OpTableSize - NextSlot(f)
    BY <1>1, AfterValue
  <2> QED  BY <2>1, NextSlotValue, Sizes DEF OpSlot
<1> QED  BY <1>1, <1>2, <1>3, <1>4, <1>5

(* The window grows by the slot at its end.                                *)
LEMMA WindowGrows ==
    ASSUME NEW f \in OpSlot, NEW n \in 0 .. OpTableSize - 1, NEW st \in OpSlot,
           st = (f + n) % OpTableSize
    PROVE  /\ NextSlot(st) \in OpSlot
           /\ NextSlot(st) = (f + (n + 1)) % OpTableSize
           /\ After(f, st) = n
           /\ \A s \in OpSlot : After(f, s) = n => s = st
<1>1. n \in 0 .. OpTableSize /\ n + 1 \in 0 .. OpTableSize
  BY Sizes
<1>2. st = IF f + n < OpTableSize THEN f + n ELSE f + n - OpTableSize
  BY <1>1, SlotAfter
<1>3. NextSlot(st) \in OpSlot
  BY NextSlotValue, Sizes DEF OpSlot
<1>4. NextSlot(st) = (f + (n + 1)) % OpTableSize
  <2>1. (f + (n + 1)) % OpTableSize =
          IF f + (n + 1) < OpTableSize THEN f + (n + 1) ELSE f + (n + 1) - OpTableSize
    BY <1>1, SlotAfter
  <2> QED  BY <1>1, <1>2, <2>1, NextSlotValue, Sizes DEF OpSlot
<1>5. After(f, st) = n
  BY <1>2, AfterValue, Sizes DEF OpSlot
<1>6. ASSUME NEW s \in OpSlot, After(f, s) = n PROVE s = st
  <2>1. After(f, s) = IF f <= s THEN s - f ELSE s + OpTableSize - f
    BY AfterValue
  <2> QED  BY <1>2, <1>6, <2>1, Sizes DEF OpSlot
<1> QED  BY <1>3, <1>4, <1>5, <1>6

(* When a slot is taken, every other is one further back; the one taken    *)
(* was the furthest back of all.                                           *)
LEMMA BackGrows ==
    ASSUME NEW st \in OpSlot
    PROVE  /\ Before(NextSlot(st), st) = 0
           /\ Before(st, st) = OpTableSize - 1
           /\ \A s \in OpSlot : Before(st, s) \in 0 .. OpTableSize - 1
           /\ \A s \in OpSlot : s # st =>
                Before(NextSlot(st), s) = Before(st, s) + 1
<1>1. NextSlot(st) \in OpSlot
  BY NextSlotValue, Sizes DEF OpSlot
<1>2. \A s \in OpSlot : Before(st, s) = IF s < st THEN st - 1 - s ELSE st + OpTableSize - 1 - s
  BY BeforeValue
<1>3. \A s \in OpSlot : Before(NextSlot(st), s) =
        IF s < NextSlot(st) THEN NextSlot(st) - 1 - s ELSE NextSlot(st) + OpTableSize - 1 - s
  BY <1>1, BeforeValue
<1>4. Before(NextSlot(st), st) = 0
  BY <1>3, NextSlotValue, Sizes DEF OpSlot
<1>5. Before(st, st) = OpTableSize - 1
  BY <1>2, Sizes DEF OpSlot
<1>6. \A s \in OpSlot : Before(st, s) \in 0 .. OpTableSize - 1
  BY <1>2, Sizes DEF OpSlot
<1>7. ASSUME NEW s \in OpSlot, s # st
      PROVE  Before(NextSlot(st), s) = Before(st, s) + 1
  BY <1>2, <1>3, <1>7, NextSlotValue, Sizes DEF OpSlot
<1> QED  BY <1>4, <1>5, <1>6, <1>7

-----------------------------------------------------------------------------
(* The pipeline.                                                           *)

(* An operation other than a request enters.                               *)
LEMMA OtherEnters ==
    ASSUME NEW ps \in Seq(Op), OneRequest(ps), NEW op \in Op, op.kind # "req"
    PROVE  /\ Append(ps, op) \in Seq(Op)
           /\ OneRequest(Append(ps, op))
           /\ HasRequest(Append(ps, op)) => HasRequest(ps)
<1>1. /\ Append(ps, op) \in Seq(Op)
      /\ Len(Append(ps, op)) = Len(ps) + 1
      /\ \A i \in 1 .. Len(ps) : Append(ps, op)[i] = ps[i]
      /\ Append(ps, op)[Len(ps) + 1] = op
  BY AppendProperties
<1>2. DOMAIN ps = 1 .. Len(ps) /\ DOMAIN Append(ps, op) = 1 .. Len(ps) + 1 /\ Len(ps) \in Nat
  BY <1>1, LenProperties
<1>3. \A i \in DOMAIN Append(ps, op) : Append(ps, op)[i].kind = "req" =>
         i \in DOMAIN ps /\ ps[i].kind = "req" /\ Append(ps, op)[i] = ps[i]
  BY <1>1, <1>2
<1> QED  BY <1>1, <1>3 DEF OneRequest, HasRequest

(* A request enters a pipeline that holds none.                            *)
LEMMA RequestEnters ==
    ASSUME NEW ps \in Seq(Op), ~HasRequest(ps), NEW op \in Op, op.data # 0
    PROVE  Append(ps, op) \in Seq(Op) /\ OneRequest(Append(ps, op))
<1>1. /\ Append(ps, op) \in Seq(Op)
      /\ Len(Append(ps, op)) = Len(ps) + 1
      /\ \A i \in 1 .. Len(ps) : Append(ps, op)[i] = ps[i]
      /\ Append(ps, op)[Len(ps) + 1] = op
  BY AppendProperties
<1>2. DOMAIN ps = 1 .. Len(ps) /\ DOMAIN Append(ps, op) = 1 .. Len(ps) + 1 /\ Len(ps) \in Nat
  BY <1>1, LenProperties
<1>3. \A i \in DOMAIN Append(ps, op) : Append(ps, op)[i].kind = "req" => i = Len(ps) + 1
  BY <1>1, <1>2 DEF HasRequest
<1> QED  BY <1>1, <1>3 DEF OneRequest

(* The oldest operation leaves.                                            *)
LEMMA OldestLeaves ==
    ASSUME NEW ps \in Seq(Op), ps # <<>>, OneRequest(ps)
    PROVE  /\ Tail(ps) \in Seq(Op) /\ Head(ps) \in Op
           /\ OneRequest(Tail(ps))
           /\ HasRequest(Tail(ps)) => HasRequest(ps) /\ Head(ps).kind # "req"
           /\ Head(ps).kind = "req" => HasRequest(ps) /\ Head(ps).data # 0
<1>1. /\ Head(ps) \in Op /\ Tail(ps) \in Seq(Op)
      /\ Len(Tail(ps)) = Len(ps) - 1
      /\ \A i \in 1 .. Len(Tail(ps)) : Tail(ps)[i] = ps[i + 1]
  BY HeadTailProperties
<1>2. /\ DOMAIN ps = 1 .. Len(ps) /\ DOMAIN Tail(ps) = 1 .. Len(ps) - 1
      /\ Len(ps) \in Nat \ {0} /\ Head(ps) = ps[1]
  BY <1>1, LenProperties, EmptySeq
<1>3. 1 \in DOMAIN ps /\ ps[1] = Head(ps)
  BY <1>2
<1>4. \A i \in DOMAIN Tail(ps) : i \in Nat /\ i + 1 \in DOMAIN ps /\ i + 1 # 1 /\ Tail(ps)[i] = ps[i + 1]
  BY <1>1, <1>2
<1>5. OneRequest(Tail(ps))
  <2> SUFFICES ASSUME NEW i \in DOMAIN Tail(ps), Tail(ps)[i].kind = "req"
               PROVE  /\ Tail(ps)[i].data # 0
                      /\ \A j \in DOMAIN Tail(ps) : Tail(ps)[j].kind = "req" => i = j
    BY DEF OneRequest
  <2>1. /\ ps[i + 1].data # 0
        /\ \A j \in DOMAIN Tail(ps) : Tail(ps)[j].kind = "req" => i + 1 = j + 1
    BY <1>4 DEF OneRequest
  <2> QED  BY <1>4, <2>1
<1>6. HasRequest(Tail(ps)) => HasRequest(ps) /\ Head(ps).kind # "req"
  BY <1>3, <1>4 DEF HasRequest, OneRequest
<1>7. Head(ps).kind = "req" => HasRequest(ps) /\ Head(ps).data # 0
  BY <1>3 DEF HasRequest, OneRequest
<1> QED  BY <1>1, <1>5, <1>6, <1>7

-----------------------------------------------------------------------------
(* The descriptor table of desc_fetch.                                     *)

(* The entries of an answer enter, the first one marked.                   *)
Entries(s, w) == [i \in 1 .. w |-> [slot |-> s, first |-> i = 1]]
Follow(new, es, s, w) ==
    /\ new \in Seq(Entry)
    /\ Len(new) = Len(es) + w
    /\ \A i \in 1 .. Len(es) : new[i] = es[i]
    /\ \A i \in Len(es) + 1 .. Len(es) + w :
        new[i].slot = s /\ (new[i].first <=> i = Len(es) + 1)

(* That is what appending the entries of an answer does.                   *)
LEMMA EntriesFollow ==
    ASSUME NEW es \in Seq(Entry), NEW s \in OpSlot, NEW w \in Nat \ {0}
    PROVE  Follow(es \o Entries(s, w), es, s, w)
<1> DEFINE b == Entries(s, w)
           n == Len(es)
<1>1. b \in Seq(Entry) /\ Len(b) = w
  BY DEF Entries, Entry
<1>1a. \A k \in 1 .. w : b[k].slot = s /\ (b[k].first <=> k = 1)
  BY DEF Entries
<1>2. n \in Nat
  BY LenProperties
<1> HIDE DEF b
<1>3. /\ es \o b \in Seq(Entry) /\ Len(es \o b) = Len(es) + Len(b)
      /\ \A i \in 1 .. Len(es) + Len(b) :
           (es \o b)[i] = IF i <= Len(es) THEN es[i] ELSE b[i - Len(es)]
  BY <1>1, ConcatProperties
<1> DEFINE c == es \o b
<1> HIDE DEF c, n
<1>4. c \in Seq(Entry) /\ Len(c) = n + w
  BY <1>1, <1>3 DEF c, n
<1>5. \A i \in 1 .. n + w : c[i] = IF i <= n THEN es[i] ELSE b[i - n]
  BY <1>1, <1>3 DEF c, n
<1>6. \A i \in 1 .. n : c[i] = es[i]
  BY <1>2, <1>5
<1>7. ASSUME NEW i \in n + 1 .. n + w PROVE c[i].slot = s /\ (c[i].first <=> i = n + 1)
  <2>1. c[i] = b[i - n] /\ i - n \in 1 .. w /\ (i - n = 1 <=> i = n + 1)
    BY <1>2, <1>5, <1>7
  <2> QED  BY <1>1a, <2>1
<1>8. Follow(c, es, s, w)
  BY <1>2, <1>4, <1>6, <1>7 DEF Follow, n
<1> QED  BY <1>8 DEF c, b

(* They keep everything in order.                                          *)
LEMMA AnswerEnters ==
    ASSUME NEW es \in Seq(Entry), NEW s \in OpSlot, NEW w \in Nat \ {0}, NEW st \in OpSlot,
           NEW active \in [OpSlot -> BOOLEAN], NEW commit \in [OpSlot -> BOOLEAN],
           Near(es, st, 1), FirstsApart(es), Home(es, active, commit),
           Before(st, s) = 0, active[s], ~commit[s], Absent(es, s),
           NEW new, Follow(new, es, s, w)
    PROVE  /\ new \in Seq(Entry)
           /\ Near(new, st, 0) /\ FirstsApart(new) /\ Home(new, active, commit)
<1>0. PICK n \in Nat : n = Len(es)
  BY LenProperties
<1>1. /\ new \in Seq(Entry) /\ Len(new) = n + w
      /\ DOMAIN new = 1 .. n + w /\ DOMAIN es = 1 .. n
      /\ \A i \in 1 .. n : new[i] = es[i]
  BY <1>0, LenProperties DEF Follow
<1>2. \A i \in n + 1 .. n + w : new[i].slot = s /\ (new[i].first <=> i = n + 1)
  BY <1>0 DEF Follow
<1>3. \A i \in 1 .. n : es[i].slot \in OpSlot /\ es[i].slot # s
  <2>1. \A i \in 1 .. n : es[i] \in Entry
    BY <1>0, ElementOfSeq
  <2> QED  BY <1>1, <2>1 DEF Absent, Entry
<1>4. \A i \in 1 .. n + w : i \in 1 .. n \/ i \in n + 1 .. n + w
  OBVIOUS
<1>5. Near(new, st, 0)
  <2>1. \A i \in 1 .. n : Before(st, new[i].slot) <= n + w - i
    <3> SUFFICES ASSUME NEW i \in 1 .. n PROVE Before(st, new[i].slot) <= n + w - i
      OBVIOUS
    <3>1. Before(st, es[i].slot) <= n - i + 1
      BY <1>0, <1>1 DEF Near
    <3>2. Before(st, es[i].slot) \in Nat
      BY <1>3, BackGrows
    <3> QED  BY <1>1, <3>1, <3>2
  <2>2. \A i \in n + 1 .. n + w : Before(st, new[i].slot) <= n + w - i
    BY <1>2
  <2>3. \A i \in 1 .. n + w : Before(st, new[i].slot) <= n + w - i /\ n + w - i = n + w - i + 0
    BY <1>4, <2>1, <2>2
  <2> QED  BY <1>1, <2>3 DEF Near
<1>6. FirstsApart(new)
  <2> SUFFICES ASSUME NEW i \in 1 .. n + w, NEW j \in 1 .. n + w,
                      new[i].first, new[j].first, new[i].slot = new[j].slot
               PROVE  i = j
    BY <1>1 DEF FirstsApart
  <2>1. CASE i \in 1 .. n /\ j \in 1 .. n
    BY <1>1, <2>1 DEF FirstsApart
  <2>2. CASE i \in n + 1 .. n + w /\ j \in n + 1 .. n + w
    BY <1>2, <2>2
  <2> QED  BY <1>1, <1>2, <1>3, <1>4, <2>1, <2>2
<1>7. Home(new, active, commit)
  <2> SUFFICES ASSUME NEW i \in 1 .. n + w
               PROVE  /\ new[i].first => active[new[i].slot] /\ ~commit[new[i].slot]
                      /\ ~new[i].first =>
                           \/ \E j \in 1 .. i - 1 : new[j].slot = new[i].slot /\ new[j].first
                           \/ ~active[new[i].slot]
                           \/ commit[new[i].slot]
    BY <1>1 DEF Home
  <2>1. CASE i \in 1 .. n
    <3>1. 1 .. i - 1 \subseteq 1 .. n
      BY <2>1
    <3>2. new[i] = es[i] /\ \A j \in 1 .. i - 1 : new[j] = es[j]
      BY <1>1, <2>1, <3>1
    <3> QED  BY <1>1, <2>1, <3>2 DEF Home
  <2>2. CASE i \in n + 1 .. n + w
    <3>1. CASE i = n + 1
      BY <1>2, <2>2, <3>1
    <3>2. CASE i # n + 1
      <4>1. n + 1 \in 1 .. i - 1 /\ n + 1 \in n + 1 .. n + w
        BY <2>2, <3>2
      <4>2. new[n + 1].slot = new[i].slot /\ new[n + 1].first
        BY <1>2, <2>2, <4>1
      <4> QED  BY <1>2, <2>2, <3>2, <4>1, <4>2
    <3> QED  BY <3>1, <3>2
  <2> QED  BY <1>4, <2>1, <2>2
<1> QED  BY <1>1, <1>5, <1>6, <1>7

(* An entry is read and its operation committed.  What it commits was not  *)
(* the first entry of another operation, and no later entry is first of    *)
(* the same.                                                               *)
LEMMA EntryRead ==
    ASSUME NEW es \in Seq(Entry), es # <<>>, FirstsApart(es),
           NEW active \in [OpSlot -> BOOLEAN], NEW commit \in [OpSlot -> BOOLEAN],
           Home(es, active, commit)
    PROVE  /\ Tail(es) \in Seq(Entry) /\ Head(es).slot \in OpSlot
           /\ Len(Tail(es)) <= Len(es)
           /\ \A st, k : Near(es, st, k) => Near(Tail(es), st, k)
           /\ \A s : Absent(es, s) => Absent(Tail(es), s) /\ Head(es).slot # s
           /\ FirstsApart(Tail(es))
           /\ Home(Tail(es), active, [commit EXCEPT ![Head(es).slot] = TRUE])
<1> DEFINE t == Tail(es)
           n == Len(es)
           s0 == Head(es).slot
           commit2 == [commit EXCEPT ![s0] = TRUE]
<1>1. /\ t \in Seq(Entry) /\ Len(t) = n - 1
      /\ \A i \in 1 .. n - 1 : t[i] = es[i + 1]
      /\ Head(es) = es[1] /\ n \in Nat \ {0}
      /\ Head(es) \in Entry
  BY HeadTailProperties, EmptySeq
<1>2. DOMAIN t = 1 .. n - 1 /\ DOMAIN es = 1 .. n
  BY <1>1, LenProperties
<1>3. s0 \in OpSlot /\ es[1].slot = s0
  BY <1>1 DEF Entry
<1> HIDE DEF t, n, s0, commit2
<1>4. \A i \in 1 .. n - 1 : i + 1 \in 1 .. n /\ i + 1 # 1 /\ n - 1 - i = n - (i + 1)
  BY <1>1
<1>4a. /\ 1 \in DOMAIN es
       /\ \A i \in DOMAIN t : i \in 1 .. n - 1 /\ i + 1 \in DOMAIN es /\ t[i] = es[i + 1]
  BY <1>1, <1>2, <1>4
<1>5. ASSUME NEW st, NEW k, Near(es, st, k) PROVE Near(t, st, k)
  BY <1>1, <1>2, <1>4, <1>5 DEF Near, n
<1>6. ASSUME NEW s, Absent(es, s) PROVE Absent(t, s) /\ s0 # s
  <2>1. s0 # s
    BY <1>3, <1>4a, <1>6 DEF Absent
  <2>2. \A i \in DOMAIN t : t[i].slot # s
    BY <1>4a, <1>6 DEF Absent
  <2> QED  BY <2>1, <2>2 DEF Absent
<1>7. FirstsApart(t)
  <2> SUFFICES ASSUME NEW i \in 1 .. n - 1, NEW j \in 1 .. n - 1,
                      t[i].first, t[j].first, t[i].slot = t[j].slot
               PROVE  i = j
    BY <1>2 DEF FirstsApart
  <2>1. /\ i + 1 \in DOMAIN es /\ j + 1 \in DOMAIN es
        /\ es[i + 1].first /\ es[j + 1].first /\ es[i + 1].slot = es[j + 1].slot
    BY <1>2, <1>4a
  <2>2. i + 1 = j + 1
    BY <2>1 DEF FirstsApart
  <2> QED  BY <2>2
<1>8. /\ \A s \in OpSlot : s # s0 => commit2[s] = commit[s]
      /\ commit2[s0]
  BY <1>3 DEF commit2
<1>9. Home(t, active, commit2)
  <2> SUFFICES ASSUME NEW i \in 1 .. n - 1
               PROVE  /\ t[i].first => active[t[i].slot] /\ ~commit2[t[i].slot]
                      /\ ~t[i].first =>
                           \/ \E j \in 1 .. i - 1 : t[j].slot = t[i].slot /\ t[j].first
                           \/ ~active[t[i].slot]
                           \/ commit2[t[i].slot]
    BY <1>2 DEF Home
  <2>1. t[i] = es[i + 1] /\ i + 1 \in DOMAIN es /\ i + 1 # 1 /\ 1 \in DOMAIN es
    BY <1>1, <1>2, <1>4
  <2>2. t[i].slot \in OpSlot
    <3>1. es[i + 1] \in Entry
      BY <1>2, <2>1, ElementOfSeq DEF n
    <3> QED  BY <2>1, <3>1 DEF Entry
  <2>3. CASE t[i].first
    <3>1. active[t[i].slot] /\ ~commit[t[i].slot]
      BY <2>1, <2>3 DEF Home
    <3>2. t[i].slot # s0
      <4> SUFFICES ASSUME t[i].slot = s0 PROVE FALSE
        OBVIOUS
      <4>1. ~es[1].first
        BY <1>3, <2>1, <2>3 DEF FirstsApart
      <4>2. ~active[s0] \/ commit[s0]
        <5>1. 1 .. 1 - 1 = {}
          OBVIOUS
        <5> QED  BY <1>3, <2>1, <4>1, <5>1 DEF Home
      <4> QED  BY <3>1, <4>2
    <3> QED  BY <1>8, <2>2, <2>3, <3>1, <3>2
  <2>4. CASE ~t[i].first
    <3>1. CASE t[i].slot = s0
      BY <1>8, <2>4, <3>1
    <3>2. CASE t[i].slot # s0
      <4>1. CASE \E j \in 1 .. i + 1 - 1 : es[j].slot = es[i + 1].slot /\ es[j].first
        <5>1. PICK j \in 1 .. i + 1 - 1 : es[j].slot = es[i + 1].slot /\ es[j].first
          BY <4>1
        <5>2. j # 1
          BY <1>3, <2>1, <3>2, <5>1
        <5>3. j - 1 \in 1 .. i - 1 /\ j - 1 \in 1 .. n - 1 /\ (j - 1) + 1 = j
          BY <1>1, <5>2
        <5>4. t[j - 1] = es[j]
          BY <1>1, <5>3
        <5> QED  BY <2>1, <2>4, <5>1, <5>3, <5>4
      <4>2. CASE ~active[t[i].slot] \/ commit[t[i].slot]
        BY <1>8, <2>2, <2>4, <3>2, <4>2
      <4> QED  BY <2>1, <2>4, <4>1, <4>2 DEF Home
    <3> QED  BY <3>1, <3>2
  <2> QED  BY <2>3, <2>4
<1>10. Len(t) <= Len(es)
  BY <1>1 DEF n
<1> QED  BY <1>1, <1>3, <1>5, <1>6, <1>7, <1>9, <1>10 DEF t, s0, commit2

(* A slot is taken that no entry is of, because the entries are too few to *)
(* reach round the table.                                                  *)
LEMMA SlotTaken ==
    ASSUME NEW es \in Seq(Entry), NEW st \in OpSlot,
           Near(es, st, 0), Len(es) < OpTableSize,
           NEW active \in [OpSlot -> BOOLEAN], NEW commit \in [OpSlot -> BOOLEAN],
           Home(es, active, commit)
    PROVE  /\ Absent(es, st)
           /\ Near(es, NextSlot(st), 1)
           /\ Home(es, [active EXCEPT ![st] = TRUE], [commit EXCEPT ![st] = FALSE])
<1>1. DOMAIN es = 1 .. Len(es) /\ Len(es) \in Nat /\ \A i \in 1 .. Len(es) : es[i].slot \in OpSlot
  <2>1. \A i \in 1 .. Len(es) : es[i] \in Entry
    BY ElementOfSeq
  <2> QED  BY <2>1, LenProperties DEF Entry
<1>2. \A i \in 1 .. Len(es) :
        /\ es[i].slot # st
        /\ Before(NextSlot(st), es[i].slot) <= Len(es) - i + 1
  <2> SUFFICES ASSUME NEW i \in 1 .. Len(es)
               PROVE  /\ es[i].slot # st
                      /\ Before(NextSlot(st), es[i].slot) <= Len(es) - i + 1
    OBVIOUS
  <2>1. PICK b \in Nat : b = Before(st, es[i].slot)
    BY <1>1, BackGrows
  <2>2. b <= Len(es) - i
    <3>1. b <= Len(es) - i + 0
      BY <1>1, <2>1 DEF Near
    <3> QED  BY <1>1, <3>1
  <2>3. b # OpTableSize - 1
    BY <1>1, <2>2, TableSize
  <2>4. es[i].slot # st
    BY <1>1, <2>1, <2>3, BackGrows
  <2>5. Before(NextSlot(st), es[i].slot) = b + 1
    BY <1>1, <2>1, <2>4, BackGrows
  <2> QED  BY <1>1, <2>2, <2>4, <2>5
<1>3. Absent(es, st) /\ Near(es, NextSlot(st), 1)
  BY <1>1, <1>2 DEF Absent, Near
<1> DEFINE active2 == [active EXCEPT ![st] = TRUE]
           commit2 == [commit EXCEPT ![st] = FALSE]
<1>4. \A i \in 1 .. Len(es) : active2[es[i].slot] = active[es[i].slot]
                              /\ commit2[es[i].slot] = commit[es[i].slot]
  BY <1>1, <1>2
<1> HIDE DEF active2, commit2
<1>5. Home(es, active2, commit2)
  BY <1>1, <1>4 DEF Home
<1> QED  BY <1>3, <1>5 DEF active2, commit2

(* A committed operation gives up its slot.                                *)
LEMMA SlotGiven ==
    ASSUME NEW es \in Seq(Entry), NEW f \in OpSlot,
           NEW active \in [OpSlot -> BOOLEAN], NEW commit \in [OpSlot -> BOOLEAN],
           Home(es, active, commit), commit[f]
    PROVE  Home(es, [active EXCEPT ![f] = FALSE], commit)
<1>1. \A i \in 1 .. Len(es) : es[i] \in Entry
  BY ElementOfSeq
<1>2. DOMAIN es = 1 .. Len(es) /\ \A i \in 1 .. Len(es) : es[i].slot \in OpSlot
  BY <1>1, LenProperties DEF Entry
<1> DEFINE active2 == [active EXCEPT ![f] = FALSE]
<1>3. ~active2[f] /\ \A s \in OpSlot : s # f => active2[s] = active[s]
  OBVIOUS
<1> HIDE DEF active2
<1>4. Home(es, active2, commit)
  BY <1>2, <1>3 DEF Home
<1> QED  BY <1>4 DEF active2

-----------------------------------------------------------------------------
(* TableIsQueue of any table.                                              *)
Slots(active) == {s \in OpSlot : active[s]}
Newest(active, owner, index, f) ==
    \A s \in Slots(active) :
        LET newest == index[owner[s]] IN
        active[newest] /\ owner[newest] = owner[s] /\ After(f, s) <= After(f, newest)
QueueOf(active, owner, index, st, f) ==
    /\ \A s \in OpSlot : active[s] <=> After(f, s) < Cardinality(Slots(active))
    /\ st = (f + Cardinality(Slots(active))) % OpTableSize
    /\ Newest(active, owner, index, f)

(* The number of slots in use.                                             *)
LEMMA SlotsCounted ==
    ASSUME NEW active
    PROVE  /\ IsFiniteSet(Slots(active))
           /\ Cardinality(Slots(active)) \in 0 .. OpTableSize
<1>1. IsFiniteSet(OpSlot) /\ Cardinality(OpSlot) = OpTableSize
  BY FS_Interval, TableSize DEF OpSlot
<1>2. Slots(active) \in SUBSET OpSlot
  BY DEF Slots
<1>3. /\ IsFiniteSet(Slots(active))
      /\ Cardinality(Slots(active)) <= Cardinality(OpSlot)
  BY <1>1, <1>2, FS_Subset
<1>4. Cardinality(Slots(active)) \in Nat
  BY <1>3, FS_CardinalityType
<1> QED  BY <1>1, <1>3, <1>4, TableSize

(* The age of a slot is a number less than the size of the table.          *)
LEMMA AfterType ==
    ASSUME NEW f \in OpSlot, NEW s \in OpSlot
    PROVE  After(f, s) \in 0 .. OpTableSize - 1
BY AfterValue, TableSize DEF OpSlot

(* The oldest operation leaves the table.                                  *)
LEMMA OldestFinished ==
    ASSUME NEW active \in [OpSlot -> BOOLEAN], NEW owner \in [OpSlot -> Queue],
           NEW index \in [Queue -> OpSlot], NEW st \in OpSlot, NEW f \in OpSlot,
           QueueOf(active, owner, index, st, f), active[f]
    PROVE  QueueOf([active EXCEPT ![f] = FALSE], owner, index, st, NextSlot(f))
<1> DEFINE active2 == [active EXCEPT ![f] = FALSE]
           g == NextSlot(f)
<1>1. PICK n \in 0 .. OpTableSize : n = Cardinality(Slots(active))
  BY SlotsCounted
<1>2. f \in Slots(active) /\ IsFiniteSet(Slots(active))
  BY SlotsCounted DEF Slots
<1>3. Slots(active2) = Slots(active) \ {f}
  BY DEF Slots
<1>4. Cardinality(Slots(active2)) = n - 1
  BY <1>1, <1>2, <1>3, FS_RemoveElement
<1>5. n \in 1 .. OpTableSize
  <2>1. After(f, f) < n
    BY <1>1 DEF QueueOf
  <2>2. After(f, f) \in Nat
    BY AfterType
  <2> QED  BY <1>1, <2>1, <2>2
<1>6. /\ g \in OpSlot
      /\ (g + (n - 1)) % OpTableSize = (f + n) % OpTableSize
      /\ \A s \in OpSlot : s # f => After(f, s) > 0 /\ After(g, s) = After(f, s) - 1
      /\ After(f, f) = 0
      /\ After(g, f) = OpTableSize - 1
  BY <1>5, WindowShrinks
<1>7. ~active2[f] /\ \A s \in OpSlot : s # f => active2[s] = active[s]
  OBVIOUS
<1> HIDE DEF active2, g
<1>8. \A s \in OpSlot : active2[s] <=> After(g, s) < n - 1
  <2> SUFFICES ASSUME NEW s \in OpSlot PROVE active2[s] <=> After(g, s) < n - 1
    OBVIOUS
  <2>1. CASE s = f
    BY <1>5, <1>6, <1>7, <2>1, TableSize
  <2>2. CASE s # f
    <3>1. PICK a \in Nat : a = After(f, s)
      BY AfterType
    <3>2. active[s] <=> a < n
      BY <1>1, <3>1 DEF QueueOf
    <3> QED  BY <1>5, <1>6, <1>7, <2>2, <3>1, <3>2
  <2> QED  BY <2>1, <2>2
<1>9. st = (g + (n - 1)) % OpTableSize
  BY <1>1, <1>6 DEF QueueOf
<1>10. Newest(active2, owner, index, g)
  <2> SUFFICES ASSUME NEW s \in OpSlot, s # f, active[s], NEW m \in OpSlot, m = index[owner[s]]
               PROVE  active2[m] /\ owner[m] = owner[s] /\ After(g, s) <= After(g, m)
    BY <1>7 DEF Newest, Slots
  <2>1. active[m] /\ owner[m] = owner[s] /\ After(f, s) <= After(f, m)
    BY DEF QueueOf, Newest, Slots
  <2>2. PICK a \in Nat : a = After(f, s)
    BY AfterType
  <2>3. PICK b \in Nat : b = After(f, m)
    BY AfterType
  <2>4. m # f
    BY <1>6, <2>1, <2>2, <2>3
  <2> QED  BY <1>6, <1>7, <2>1, <2>2, <2>3, <2>4
<1>11. QueueOf(active2, owner, index, st, g)
  BY <1>4, <1>8, <1>9, <1>10 DEF QueueOf
<1> QED  BY <1>11 DEF active2, g

(* A granted dequeue takes the slot at the end, and its queue remembers it. *)
LEMMA NewestTaken ==
    ASSUME NEW active \in [OpSlot -> BOOLEAN], NEW owner \in [OpSlot -> Queue],
           NEW index \in [Queue -> OpSlot], NEW st \in OpSlot, NEW f \in OpSlot,
           QueueOf(active, owner, index, st, f), ~active[st], NEW q \in Queue
    PROVE  QueueOf([active EXCEPT ![st] = TRUE], [owner EXCEPT ![st] = q],
                   [index EXCEPT ![q] = st], NextSlot(st), f)
<1> DEFINE active2 == [active EXCEPT ![st] = TRUE]
           owner2 == [owner EXCEPT ![st] = q]
           index2 == [index EXCEPT ![q] = st]
           g == NextSlot(st)
<1>1. PICK n \in 0 .. OpTableSize : n = Cardinality(Slots(active))
  BY SlotsCounted
<1>2. st \notin Slots(active) /\ IsFiniteSet(Slots(active))
  BY SlotsCounted DEF Slots
<1>3. Slots(active2) = Slots(active) \union {st}
  BY DEF Slots
<1>4. Cardinality(Slots(active2)) = n + 1
  BY <1>1, <1>2, <1>3, FS_AddElement
<1>5. n \in 0 .. OpTableSize - 1
  <2>1. ~(After(f, st) < n)
    BY <1>1 DEF QueueOf
  <2>2. After(f, st) \in 0 .. OpTableSize - 1
    BY AfterType
  <2> QED  BY <1>1, <2>1, <2>2, TableSize
<1>6. st = (f + n) % OpTableSize
  BY <1>1 DEF QueueOf
<1>7. /\ g = (f + (n + 1)) % OpTableSize
      /\ After(f, st) = n
      /\ \A s \in OpSlot : After(f, s) = n => s = st
  BY <1>5, <1>6, WindowGrows
<1>8. /\ active2[st] /\ \A s \in OpSlot : s # st => active2[s] = active[s]
      /\ owner2[st] = q /\ \A s \in OpSlot : s # st => owner2[s] = owner[s]
      /\ index2[q] = st /\ \A p \in Queue : p # q => index2[p] = index[p]
  OBVIOUS
<1> HIDE DEF active2, owner2, index2, g
<1>9. ASSUME NEW s \in OpSlot PROVE active2[s] <=> After(f, s) < n + 1
  <2>1. PICK a \in Nat : a = After(f, s)
    BY AfterType
  <2>2. active[s] <=> a < n
    BY <1>1, <2>1 DEF QueueOf
  <2>3. CASE s = st
    BY <1>5, <1>7, <1>8, <2>3
  <2>4. CASE s # st
    BY <1>5, <1>7, <1>8, <2>1, <2>2, <2>4
  <2> QED  BY <2>3, <2>4
<1>10. Newest(active2, owner2, index2, f)
  <2> SUFFICES ASSUME NEW s \in OpSlot, active2[s]
               PROVE  LET m == index2[owner2[s]] IN
                      active2[m] /\ owner2[m] = owner2[s] /\ After(f, s) <= After(f, m)
    BY DEF Newest, Slots
  <2>1. PICK a \in Nat : a = After(f, s)
    BY AfterType
  <2>2. a <= n
    BY <1>5, <1>9, <2>1
  <2>3. CASE owner2[s] = q
    BY <1>7, <1>8, <2>1, <2>2, <2>3
  <2>4. CASE owner2[s] # q
    <3>1. s # st /\ active[s] /\ owner2[s] = owner[s] /\ owner[s] \in Queue
      BY <1>8, <2>4
    <3>2. PICK m \in OpSlot : m = index[owner[s]]
      BY <3>1
    <3>3. active[m] /\ owner[m] = owner[s] /\ After(f, s) <= After(f, m)
      BY <3>1, <3>2 DEF QueueOf, Newest, Slots
    <3>4. m # st
      BY <3>3
    <3>5. index2[owner2[s]] = m
      BY <1>8, <2>4, <3>1, <3>2
    <3> QED  BY <1>8, <3>1, <3>3, <3>4, <3>5
  <2> QED  BY <2>3, <2>4
<1>11. QueueOf(active2, owner2, index2, g, f)
  BY <1>4, <1>7, <1>9, <1>10 DEF QueueOf
<1> QED  BY <1>11 DEF active2, owner2, index2, g

(* What the two properties say of the table as it is.                      *)
LEMMA SameTable == TableIsQueue <=> QueueOf(opActive, opQueue, opIndex, startPtr, finishPtr)
BY DEF TableIsQueue, QueueOf, Newest, Slots, ActiveSlots, Age, After

-----------------------------------------------------------------------------
(* The steps.                                                              *)

(* The program starts with the invariant.                                  *)
LEMMA InitInv == Init => IInv
<1> SUFFICES ASSUME Init PROVE IInv
  OBVIOUS
<1>1. 0 \in OpSlot
  BY TableSize DEF OpSlot
<1>2. Typing
  <2>1. pipe \in Seq(Op) /\ fetch \in Seq(Entry)
    BY EmptySeq DEF Init
  <2> QED  BY <1>1, <2>1 DEF Init, Typing
<1>3. TableIsQueue
  <2>1. Slots(opActive) = {}
    BY DEF Slots, Init
  <2>2. Cardinality(Slots(opActive)) = 0
    BY <2>1, FS_EmptySet
  <2>3. \A s \in OpSlot : opActive[s] <=> After(finishPtr, s) < 0
    <3>1. \A s \in OpSlot : After(finishPtr, s) \in Nat /\ ~opActive[s]
      BY <1>2, AfterType DEF Typing, Init
    <3> QED  BY <3>1
  <2>4. startPtr = (finishPtr + 0) % OpTableSize
    <3>1. 0 % OpTableSize = 0 /\ 0 + 0 = 0
      BY TableSize, ModValue
    <3> QED  BY <3>1 DEF Init
  <2>5. Newest(opActive, opQueue, opIndex, finishPtr)
    BY <2>1 DEF Newest
  <2> QED  BY <2>2, <2>3, <2>4, <2>5, SameTable DEF QueueOf
<1>4. DOMAIN pipe = {} /\ DOMAIN fetch = {} /\ resp = None
  BY DEF Init
<1> QED  BY <1>2, <1>3, <1>4
         DEF IInv, RequestFits, HasRequest, OneRequest, GrantFresh, Granted, FetchNear, Near,
             FirstsApart, Home

(* Steps that leave table, answer and entries alone need only look at the  *)
(* pipeline.                                                               *)
LEMMA TableStays ==
    ASSUME IInv, Typing', RequestFits',
           UNCHANGED <<opActive, opCommit, opQueue, opIndex, startPtr, finishPtr, resp, fetch>>
    PROVE  IInv'
<1>1. TableIsQueue'
  <2>1. QueueOf(opActive, opQueue, opIndex, startPtr, finishPtr)
    BY SameTable DEF IInv
  <2>2. QueueOf(opActive', opQueue', opIndex', startPtr', finishPtr')
    BY <2>1
  <2>3. (TableIsQueue <=> QueueOf(opActive, opQueue, opIndex, startPtr, finishPtr))'
    BY SameTable, PTL
  <2> QED  BY <2>2, <2>3
<1>2. GrantFresh' /\ FetchNear'
  BY DEF IInv, GrantFresh, FetchNear, Granted
<1>3. FirstsApart(fetch)' /\ Home(fetch, opActive, opCommit)'
  BY DEF IInv
<1> QED  BY <1>1, <1>2, <1>3 DEF IInv

(* An operation carries what it read.                                      *)
LEMMA ReadTyped ==
    ASSUME Typing, NEW kind \in WriteKind \union {"commit", "req"}, NEW q \in Queue, NEW data \in Nat
    PROVE  Read(kind, q, data) \in Op
BY DEF Typing, Read, Op

(* A register write enters the pipeline.                                   *)
LEMMA WriteKept ==
    ASSUME IInv, NEW kind \in WriteKind, NEW q \in Queue, NEW data \in Nat,
           AcceptWrite(kind, q, data)
    PROVE  IInv'
<1> DEFINE op == Read(kind, q, data)
<1>1. op \in Op /\ op.kind # "req"
  BY ReadTyped DEF IInv, Read, WriteKind
<1> HIDE DEF op
<1>2. pipe \in Seq(Op) /\ OneRequest(pipe) /\ pipe' = Append(pipe, op)
  BY DEF IInv, Typing, RequestFits, AcceptWrite, op
<1>3. pipe' \in Seq(Op) /\ OneRequest(pipe') /\ (HasRequest(pipe') => HasRequest(pipe))
  BY <1>1, <1>2, OtherEnters
<1>4. UNCHANGED <<queueVars, tableVars, resp, fetch>>
  BY DEF AcceptWrite
<1>5. Typing'
  BY <1>3, <1>4 DEF IInv, Typing, queueVars, tableVars
<1>6. RequestFits'
  BY <1>3, <1>4 DEF IInv, RequestFits, Idle, tableVars
<1> QED  BY <1>4, <1>5, <1>6, TableStays DEF queueVars, tableVars

(* What the host writes is a number.                                       *)
LEMMA HostKept == IInv /\ HostWrite => IInv'
<1> SUFFICES ASSUME IInv, HostWrite PROVE IInv'
  OBVIOUS
<1>1. ASSUME NEW q \in Queue, NEW n \in Wqe PROVE Plus(prodPtr[q], n) \in Nat
  <2>1. prodPtr[q] + n \in Nat /\ PtrMod \in Nat \ {0}
    <3>1. prodPtr[q] \in Nat
      BY DEF IInv, Typing
    <3>2. n \in Nat /\ PtrMod \in Nat \ {0}
      BY Sizes
    <3> QED  BY <3>1, <3>2
  <2>2. (prodPtr[q] + n) % PtrMod \in 0 .. PtrMod - 1
    BY <2>1, ModType
  <2> QED  BY <2>1, <2>2 DEF Plus
<1>2. "prod" \in WriteKind /\ "cons" \in WriteKind /\ "enable" \in WriteKind
  BY DEF WriteKind
<1>3. ASSUME NEW q \in Queue, NEW n \in Wqe, HostPublish(q, n) PROVE IInv'
  BY <1>1, <1>2, <1>3, WriteKept DEF HostPublish
<1>4. ASSUME NEW q \in Queue, HostDisable(q) PROVE IInv'
  BY <1>2, <1>4, WriteKept DEF HostDisable
<1>5. ASSUME NEW q \in Queue, HostRewindProd(q) PROVE IInv'
  BY <1>2, <1>5, WriteKept DEF HostRewindProd
<1>6. ASSUME NEW q \in Queue, HostRewindCons(q) PROVE IInv'
  BY <1>2, <1>6, WriteKept DEF HostRewindCons
<1>7. ASSUME NEW q \in Queue, HostEnable(q) PROVE IInv'
  BY <1>2, <1>7, WriteKept DEF HostEnable
<1> QED  BY <1>3, <1>4, <1>5, <1>6, <1>7 DEF HostWrite

(* A committed operation leaves the table.                                 *)
LEMMA CommitKept == IInv /\ AcceptCommit => IInv'
<1> SUFFICES ASSUME IInv, AcceptCommit PROVE IInv'
  OBVIOUS
<1> USE DEF IInv
<1>1. Typing /\ RequestFits /\ GrantFresh /\ FetchNear
  OBVIOUS
<1>2. /\ opActive \in [OpSlot -> BOOLEAN] /\ opCommit \in [OpSlot -> BOOLEAN]
      /\ opQueue \in [OpSlot -> Queue] /\ opIndex \in [Queue -> OpSlot]
      /\ startPtr \in OpSlot /\ finishPtr \in OpSlot /\ fetch \in Seq(Entry)
  BY <1>1 DEF Typing
<1>3. /\ opActive[finishPtr] /\ opCommit[finishPtr]
      /\ opActive' = [opActive EXCEPT ![finishPtr] = FALSE]
      /\ finishPtr' = NextSlot(finishPtr)
      /\ UNCHANGED <<queueVars, opCommit, opQueue, opPtr, startPtr, resp, fetch>>
  BY DEF AcceptCommit, Finishable
<1> DEFINE op == Read("commit", opQueue[finishPtr], opPtr[finishPtr])
<1>4. op \in Op /\ op.kind # "req"
  <2>1. opQueue[finishPtr] \in Queue /\ opPtr[finishPtr] \in Nat
    BY <1>1 DEF Typing
  <2> QED  BY <1>1, <2>1, ReadTyped DEF Read
<1> HIDE DEF op
<1>5. pipe \in Seq(Op) /\ OneRequest(pipe) /\ pipe' = Append(pipe, op)
  BY <1>1 DEF Typing, RequestFits, AcceptCommit, op
<1>6. pipe' \in Seq(Op) /\ OneRequest(pipe') /\ (HasRequest(pipe') => HasRequest(pipe))
  BY <1>4, <1>5, OtherEnters
<1>7. opActive' \in [OpSlot -> BOOLEAN] /\ finishPtr' \in OpSlot
  BY <1>2, <1>3, NextSlotType
<1>8. Typing'
  BY <1>1, <1>3, <1>6, <1>7 DEF Typing, queueVars
<1>9. TableIsQueue'
  <2>1. QueueOf(opActive, opQueue, opIndex, startPtr, finishPtr)
    BY SameTable
  <2>2. QueueOf([opActive EXCEPT ![finishPtr] = FALSE], opQueue, opIndex, startPtr, NextSlot(finishPtr))
    BY <1>2, <1>3, <2>1, OldestFinished
  <2>3. QueueOf(opActive', opQueue', opIndex', startPtr', finishPtr')
    BY <1>3, <2>2 DEF queueVars
  <2>4. (TableIsQueue <=> QueueOf(opActive, opQueue, opIndex, startPtr, finishPtr))'
    BY SameTable, PTL
  <2> QED  BY <2>3, <2>4
<1>10. RequestFits'
  <2>1. ~opActive[startPtr] => ~opActive'[startPtr]
    BY <1>2, <1>3
  <2> QED  BY <1>1, <1>3, <1>6, <2>1 DEF RequestFits, Idle
<1>11. GrantFresh'
  <2>1. ASSUME Granted PROVE opActive'[resp.slot]
    <3>1. opActive[resp.slot] /\ ~opCommit[resp.slot] /\ resp.slot \in OpSlot
      BY <1>1, <2>1 DEF GrantFresh, Granted, Typing, Answer
    <3> QED  BY <1>2, <1>3, <3>1
  <2> QED  BY <1>1, <1>3, <2>1 DEF GrantFresh, Granted
<1>12. FetchNear'
  BY <1>1, <1>3 DEF FetchNear, Granted
<1>13. Home(fetch, opActive', opCommit)
  BY <1>2, <1>3, SlotGiven
<1> QED  BY <1>3, <1>8, <1>9, <1>10, <1>11, <1>12, <1>13

(* A request enters the pipeline when nothing is under way that could      *)
(* grant another or fill the table of desc_fetch before it is performed.   *)
LEMMA RequestKept ==
    ASSUME IInv, NEW q \in Queue, NEW n \in Wqe, AcceptReq(q, n)
    PROVE  IInv'
<1> DEFINE op == Read("req", q, n)
<1>1. n \in Nat \ {0}
  BY Sizes
<1>2. op \in Op /\ op.data # 0
  BY <1>1, ReadTyped DEF IInv, Read
<1> HIDE DEF op
<1>3. /\ pipe \in Seq(Op) /\ pipe' = Append(pipe, op)
      /\ resp = None /\ ~opActive[startPtr] /\ ~InPipe({"req"}) /\ Room
      /\ UNCHANGED <<queueVars, tableVars, resp, fetch>>
  BY DEF IInv, Typing, AcceptReq, SlotFree, op
<1>4. ~HasRequest(pipe)
  BY <1>3 DEF HasRequest, InPipe
<1>5. pipe' \in Seq(Op) /\ OneRequest(pipe')
  BY <1>2, <1>3, <1>4, RequestEnters
<1>6. Len(fetch) < DescTableSize
  <2>1. Requested = Len(fetch) + 0 + 0
    <3>1. {i \in DOMAIN pipe : pipe[i].kind = "req"} = {}
      BY <1>4 DEF HasRequest
    <3> QED  BY <1>3, <3>1 DEF Requested
  <2>2. Len(fetch) \in Nat
    BY LenProperties DEF IInv, Typing
  <2>3. Requested < DescTableSize
    BY <1>3 DEF Room
  <2> QED  BY <2>1, <2>2, <2>3
<1>7. Typing'
  BY <1>3, <1>5 DEF IInv, Typing, queueVars, tableVars
<1>8. RequestFits'
  BY <1>3, <1>5, <1>6 DEF RequestFits, Idle, tableVars
<1> QED  BY <1>3, <1>7, <1>8, TableStays DEF queueVars, tableVars

(* An operation other than a request leaves the pipeline.                  *)
LEMMA PerformKept ==
    IInv /\ (PerformCommit \/ PerformProd \/ PerformCons \/ PerformEnable) => IInv'
<1> SUFFICES ASSUME IInv, PerformCommit \/ PerformProd \/ PerformCons \/ PerformEnable
             PROVE  IInv'
  OBVIOUS
<1>1. /\ pipe # <<>> /\ pipe' = Tail(pipe)
      /\ UNCHANGED <<opIndex, tableVars, resp, fetch>>
  BY DEF PerformCommit, PerformProd, PerformCons, PerformEnable
<1>2. pipe \in Seq(Op) /\ OneRequest(pipe) /\ (HasRequest(pipe) => Idle)
  BY DEF IInv, Typing, RequestFits
<1>3. /\ pipe' \in Seq(Op) /\ Head(pipe) \in Op
      /\ OneRequest(pipe')
      /\ HasRequest(pipe') => HasRequest(pipe)
  BY <1>1, <1>2, OldestLeaves
<1>4. Head(pipe).queue \in Queue /\ Head(pipe).data \in Nat
  BY <1>3 DEF Op
<1>5. prodPtr' \in [Queue -> Nat] /\ consPtr' \in [Queue -> Nat] /\ enabled' \in [Queue -> BOOLEAN]
  <2>1. prodPtr \in [Queue -> Nat] /\ consPtr \in [Queue -> Nat] /\ enabled \in [Queue -> BOOLEAN]
    BY DEF IInv, Typing
  <2>2. CASE PerformCommit
    BY <1>4, <2>1, <2>2 DEF PerformCommit
  <2>3. CASE PerformProd
    BY <1>4, <2>1, <2>3 DEF PerformProd
  <2>4. CASE PerformCons
    BY <1>4, <2>1, <2>4 DEF PerformCons
  <2>5. CASE PerformEnable
    BY <1>4, <2>1, <2>5 DEF PerformEnable
  <2> QED  BY <2>2, <2>3, <2>4, <2>5
<1>6. Typing'
  BY <1>1, <1>3, <1>5 DEF IInv, Typing, tableVars
<1>7. RequestFits'
  BY <1>1, <1>2, <1>3 DEF RequestFits, Idle, tableVars
<1> QED  BY <1>1, <1>6, <1>7, TableStays DEF tableVars

(* A dequeue is refused, or granted the slot at startPtr.                  *)
LEMMA DequeueKept == IInv /\ PerformReq => IInv'
<1> SUFFICES ASSUME IInv, PerformReq PROVE IInv'
  OBVIOUS
<1> DEFINE op == Head(pipe)
           ptr == ActiveConsPtr(op)
           q == op.queue
<1>1. /\ Typing /\ OneRequest(pipe) /\ (HasRequest(pipe) => Idle)
      /\ FetchNear /\ FirstsApart(fetch) /\ Home(fetch, opActive, opCommit)
  BY DEF IInv, RequestFits
<1>2. /\ prodPtr \in [Queue -> Nat] /\ consPtr \in [Queue -> Nat]
      /\ enabled \in [Queue -> BOOLEAN] /\ opIndex \in [Queue -> OpSlot]
      /\ opActive \in [OpSlot -> BOOLEAN] /\ opCommit \in [OpSlot -> BOOLEAN]
      /\ opQueue \in [OpSlot -> Queue] /\ opPtr \in [OpSlot -> Nat]
      /\ startPtr \in OpSlot /\ finishPtr \in OpSlot
      /\ pipe \in Seq(Op) /\ fetch \in Seq(Entry)
  BY <1>1 DEF Typing
<1>3. /\ pipe # <<>> /\ op.kind = "req" /\ pipe' = Tail(pipe)
      /\ UNCHANGED <<prodPtr, consPtr, enabled, finishPtr, fetch, rung>>
  BY DEF PerformReq
<1>4. /\ Tail(pipe) \in Seq(Op) /\ op \in Op /\ OneRequest(Tail(pipe))
      /\ ~HasRequest(Tail(pipe)) /\ HasRequest(pipe) /\ op.data # 0
  BY <1>1, <1>2, <1>3, OldestLeaves
<1>5. resp = None /\ Len(fetch) < DescTableSize /\ ~opActive[startPtr] /\ ~Granted
  BY <1>1, <1>4 DEF Idle, Granted
<1>6. q \in Queue /\ op.data \in Nat \ {0} /\ op.index \in OpSlot /\ op.cons \in Nat
  BY <1>4 DEF Op
<1>7. ptr \in Nat /\ Plus(ptr, op.data) \in Nat
  <2>1. ptr \in Nat
    BY <1>2, <1>6 DEF ActiveConsPtr
  <2> HIDE DEF ptr
  <2>2. ptr + op.data \in Nat /\ PtrMod \in Nat \ {0}
    BY <1>6, <2>1, Sizes
  <2>3. (ptr + op.data) % PtrMod \in 0 .. PtrMod - 1
    BY <2>2, ModType
  <2> QED  BY <2>1, <2>2, <2>3 DEF Plus
<1>8. Len(fetch) < OpTableSize /\ Near(fetch, startPtr, 0)
  <2>1. Len(fetch) \in Nat
    BY <1>2, LenProperties
  <2> QED  BY <1>1, <1>5, <2>1, Sizes DEF FetchNear
<1>9. PICK status \in {"error", "empty", "ok"} :
        /\ resp' = [queue |-> q, ptr |-> ptr, slot |-> startPtr,
                    wqe |-> op.data, status |-> status]
        /\ IF status = "ok"
             THEN /\ opIndex' = [opIndex EXCEPT ![q] = startPtr]
                  /\ opActive' = [opActive EXCEPT ![startPtr] = TRUE]
                  /\ opCommit' = [opCommit EXCEPT ![startPtr] = FALSE]
                  /\ opQueue' = [opQueue EXCEPT ![startPtr] = q]
                  /\ opPtr' = [opPtr EXCEPT ![startPtr] = Plus(ptr, op.data)]
                  /\ startPtr' = NextSlot(startPtr)
             ELSE UNCHANGED <<opIndex, opActive, opCommit, opQueue, opPtr, startPtr>>
  BY DEF PerformReq, SlotToRemember
<1> HIDE DEF op, ptr, q
<1>10. resp' \in Answer /\ resp' # None /\ resp'.slot = startPtr /\ resp'.status = status
  <2>1. /\ startPtr \in OpSlot /\ startPtr \in Nat
        /\ q \in Queue /\ ptr \in Nat /\ op.data \in Nat \ {0}
    BY <1>2, <1>6, <1>7, TableSize DEF OpSlot
  <2>2. resp' \in Answer /\ resp'.slot = startPtr /\ resp'.status = status
    BY <1>9, <2>1 DEF Answer
  <2>3. resp' \in [queue : Queue, ptr : Nat, slot : Nat, wqe : Nat,
                   status : {"ok", "empty", "error"}]
    BY <1>9, <2>1
  <2> QED  BY <2>2, <2>3, NoneAssumption
<1>11. RequestFits'
  BY <1>3, <1>4 DEF RequestFits
<1>12. CASE status = "ok"
  <2>1. /\ opIndex' = [opIndex EXCEPT ![q] = startPtr]
        /\ opActive' = [opActive EXCEPT ![startPtr] = TRUE]
        /\ opCommit' = [opCommit EXCEPT ![startPtr] = FALSE]
        /\ opQueue' = [opQueue EXCEPT ![startPtr] = q]
        /\ opPtr' = [opPtr EXCEPT ![startPtr] = Plus(ptr, op.data)]
        /\ startPtr' = NextSlot(startPtr)
    BY <1>9, <1>12
  <2>2. /\ opIndex' \in [Queue -> OpSlot] /\ opActive' \in [OpSlot -> BOOLEAN]
        /\ opCommit' \in [OpSlot -> BOOLEAN] /\ opQueue' \in [OpSlot -> Queue]
        /\ opPtr' \in [OpSlot -> Nat] /\ startPtr' \in OpSlot
    BY <1>2, <1>6, <1>7, <2>1, NextSlotType
  <2>3. Typing'
    BY <1>2, <1>3, <1>4, <1>10, <2>2 DEF Typing
  <2>4. TableIsQueue'
    <3>1. QueueOf(opActive, opQueue, opIndex, startPtr, finishPtr)
      BY SameTable DEF IInv
    <3>2. QueueOf([opActive EXCEPT ![startPtr] = TRUE], [opQueue EXCEPT ![startPtr] = q],
                  [opIndex EXCEPT ![q] = startPtr], NextSlot(startPtr), finishPtr)
      BY <1>2, <1>5, <1>6, <3>1, NewestTaken
    <3>3. QueueOf(opActive', opQueue', opIndex', startPtr', finishPtr')
      BY <1>3, <2>1, <3>2
    <3>4. (TableIsQueue <=> QueueOf(opActive, opQueue, opIndex, startPtr, finishPtr))'
      BY SameTable, PTL
    <3> QED  BY <3>3, <3>4
  <2>5. /\ Absent(fetch, startPtr)
        /\ Near(fetch, NextSlot(startPtr), 1)
        /\ Home(fetch, [opActive EXCEPT ![startPtr] = TRUE], [opCommit EXCEPT ![startPtr] = FALSE])
    BY <1>1, <1>2, <1>8, SlotTaken
  <2>6. Granted'
    BY <1>10, <1>12 DEF Granted
  <2>7. GrantFresh'
    <3>1. opActive'[startPtr] /\ ~opCommit'[startPtr]
      BY <1>2, <2>1
    <3>2. Before(NextSlot(startPtr), startPtr) = 0
      BY <1>2, BackGrows
    <3> QED  BY <1>3, <1>10, <2>1, <2>5, <3>1, <3>2 DEF GrantFresh
  <2>8. FetchNear'
    BY <1>3, <2>1, <2>5, <2>6 DEF FetchNear
  <2>9. FirstsApart(fetch)' /\ Home(fetch, opActive, opCommit)'
    BY <1>1, <1>3, <2>1, <2>5
  <2> QED  BY <1>11, <2>3, <2>4, <2>7, <2>8, <2>9 DEF IInv
<1>13. CASE status # "ok"
  <2>1. UNCHANGED <<opIndex, opActive, opCommit, opQueue, opPtr, startPtr>>
    BY <1>9, <1>13
  <2>2. Typing'
    BY <1>2, <1>3, <1>4, <1>10, <2>1 DEF Typing
  <2>3. ~Granted'
    BY <1>10, <1>13 DEF Granted
  <2>4. TableIsQueue'
    <3>1. QueueOf(opActive, opQueue, opIndex, startPtr, finishPtr)
      BY SameTable DEF IInv
    <3>2. QueueOf(opActive', opQueue', opIndex', startPtr', finishPtr')
      BY <1>3, <2>1, <3>1
    <3>3. (TableIsQueue <=> QueueOf(opActive, opQueue, opIndex, startPtr, finishPtr))'
      BY SameTable, PTL
    <3> QED  BY <3>2, <3>3
  <2>5. GrantFresh' /\ FetchNear'
    BY <1>3, <1>8, <2>1, <2>3 DEF GrantFresh, FetchNear
  <2>6. FirstsApart(fetch)' /\ Home(fetch, opActive, opCommit)'
    BY <1>1, <1>3, <2>1
  <2> QED  BY <1>11, <2>2, <2>4, <2>5, <2>6 DEF IInv
<1> QED  BY <1>12, <1>13

(* desc_fetch takes an answer.                                             *)
LEMMA AnswerKept == IInv /\ TakeResp => IInv'
<1> SUFFICES ASSUME IInv, TakeResp PROVE IInv'
  OBVIOUS
<1>1. /\ Typing /\ RequestFits /\ GrantFresh
      /\ FetchNear /\ FirstsApart(fetch) /\ Home(fetch, opActive, opCommit)
  BY DEF IInv
<1>2. /\ opActive \in [OpSlot -> BOOLEAN] /\ opCommit \in [OpSlot -> BOOLEAN]
      /\ startPtr \in OpSlot /\ fetch \in Seq(Entry)
  BY <1>1 DEF Typing
<1>3. /\ resp # None /\ resp' = None
      /\ UNCHANGED <<queueVars, tableVars, pipe, rung>>
  BY DEF TakeResp
<1>4. ~HasRequest(pipe) /\ ~Granted'
  BY <1>1, <1>3 DEF RequestFits, Idle, Granted
<1>5. /\ fetch' \in Seq(Entry)
      /\ Near(fetch', startPtr, 0)
      /\ FirstsApart(fetch')
      /\ Home(fetch', opActive, opCommit)
  <2>1. CASE resp.status # "ok"
    <3>1. fetch' = fetch /\ ~Granted
      BY <2>1 DEF TakeResp, Granted
    <3> QED  BY <1>1, <1>2, <3>1 DEF FetchNear
  <2>2. CASE resp.status = "ok"
    <3> DEFINE s == resp.slot
               w == resp.wqe
    <3>1. s \in OpSlot /\ w \in Nat \ {0}
      BY <1>1, <1>3 DEF Typing, Answer
    <3>2. Granted
      BY <1>3, <2>2 DEF Granted
    <3>3. /\ opActive[s] /\ ~opCommit[s] /\ Before(startPtr, s) = 0 /\ Absent(fetch, s)
          /\ Near(fetch, startPtr, 1)
      BY <1>1, <3>2 DEF GrantFresh, FetchNear
    <3>4. fetch' = fetch \o Entries(s, w)
      BY <2>2 DEF TakeResp, Entries
    <3> HIDE DEF s, w
    <3>5. Follow(fetch', fetch, s, w)
      BY <1>2, <3>1, <3>4, EntriesFollow
    <3> QED  BY <1>1, <1>2, <3>1, <3>3, <3>5, AnswerEnters
  <2> QED  BY <2>1, <2>2
<1>6. Typing'
  BY <1>1, <1>3, <1>5 DEF Typing, queueVars, tableVars
<1>7. TableIsQueue'
  <2>1. QueueOf(opActive, opQueue, opIndex, startPtr, finishPtr)
    BY SameTable DEF IInv
  <2>2. QueueOf(opActive', opQueue', opIndex', startPtr', finishPtr')
    BY <1>3, <2>1 DEF queueVars, tableVars
  <2>3. (TableIsQueue <=> QueueOf(opActive, opQueue, opIndex, startPtr, finishPtr))'
    BY SameTable, PTL
  <2> QED  BY <2>2, <2>3
<1>8. RequestFits'
  BY <1>1, <1>3, <1>4 DEF RequestFits
<1>9. GrantFresh' /\ FetchNear'
  BY <1>3, <1>4, <1>5 DEF GrantFresh, FetchNear, tableVars
<1>10. FirstsApart(fetch)' /\ Home(fetch, opActive, opCommit)'
  BY <1>3, <1>5 DEF tableVars
<1> QED  BY <1>6, <1>7, <1>8, <1>9, <1>10 DEF IInv

(* desc_fetch reads an entry and commits its operation.                    *)
LEMMA RecordKept == IInv /\ RecordCommit => IInv'
<1> SUFFICES ASSUME IInv, RecordCommit PROVE IInv'
  OBVIOUS
<1>1. /\ Typing /\ RequestFits /\ GrantFresh
      /\ FetchNear /\ FirstsApart(fetch) /\ Home(fetch, opActive, opCommit)
  BY DEF IInv
<1>2. /\ opActive \in [OpSlot -> BOOLEAN] /\ opCommit \in [OpSlot -> BOOLEAN]
      /\ fetch \in Seq(Entry)
  BY <1>1 DEF Typing
<1>3. /\ fetch # <<>> /\ fetch' = Tail(fetch)
      /\ opCommit' = [opCommit EXCEPT ![Head(fetch).slot] = TRUE]
      /\ UNCHANGED <<queueVars, opActive, opQueue, opPtr, startPtr, finishPtr, pipe, resp>>
  BY DEF RecordCommit
<1>4. /\ Tail(fetch) \in Seq(Entry) /\ Head(fetch).slot \in OpSlot
      /\ Len(Tail(fetch)) <= Len(fetch)
      /\ \A st, k : Near(fetch, st, k) => Near(Tail(fetch), st, k)
      /\ \A s : Absent(fetch, s) => Absent(Tail(fetch), s) /\ Head(fetch).slot # s
      /\ FirstsApart(Tail(fetch))
      /\ Home(Tail(fetch), opActive, [opCommit EXCEPT ![Head(fetch).slot] = TRUE])
  BY <1>1, <1>2, <1>3, EntryRead
<1>5. Typing'
  <2>1. opCommit' \in [OpSlot -> BOOLEAN]
    BY <1>2, <1>3
  <2> QED  BY <1>1, <1>3, <1>4, <2>1 DEF Typing, queueVars
<1>6. TableIsQueue'
  <2>1. QueueOf(opActive, opQueue, opIndex, startPtr, finishPtr)
    BY SameTable DEF IInv
  <2>2. QueueOf(opActive', opQueue', opIndex', startPtr', finishPtr')
    BY <1>3, <2>1 DEF queueVars
  <2>3. (TableIsQueue <=> QueueOf(opActive, opQueue, opIndex, startPtr, finishPtr))'
    BY SameTable, PTL
  <2> QED  BY <2>2, <2>3
<1>7. RequestFits'
  <2>1. Len(fetch) < DescTableSize => Len(fetch') < DescTableSize
    <3>1. Len(fetch) \in Nat /\ Len(fetch') \in Nat /\ Len(fetch') <= Len(fetch)
      BY <1>2, <1>3, <1>4, LenProperties
    <3> QED  BY <3>1, Sizes
  <2> QED  BY <1>1, <1>3, <2>1 DEF RequestFits, Idle
<1>8. GrantFresh'
  <2> SUFFICES ASSUME Granted
               PROVE  /\ opActive[resp.slot] /\ ~opCommit'[resp.slot]
                      /\ Before(startPtr, resp.slot) = 0
                      /\ Absent(fetch', resp.slot)
    BY <1>3 DEF GrantFresh, Granted
  <2>1. /\ opActive[resp.slot] /\ ~opCommit[resp.slot]
        /\ Before(startPtr, resp.slot) = 0
        /\ Absent(fetch, resp.slot)
    BY <1>1 DEF GrantFresh
  <2>2. resp.slot \in OpSlot
    BY <1>1 DEF Typing, Answer, Granted
  <2>3. Absent(Tail(fetch), resp.slot) /\ Head(fetch).slot # resp.slot
    BY <1>4, <2>1
  <2> QED  BY <1>2, <1>3, <2>1, <2>2, <2>3
<1>9. FetchNear'
  <2>1. (Granted' <=> Granted) /\ startPtr' = startPtr
    BY <1>3 DEF Granted
  <2> QED  BY <1>1, <1>3, <1>4, <2>1 DEF FetchNear
<1>10. FirstsApart(fetch)' /\ Home(fetch, opActive, opCommit)'
  BY <1>3, <1>4
<1> QED  BY <1>5, <1>6, <1>7, <1>8, <1>9, <1>10 DEF IInv

-----------------------------------------------------------------------------
(* Every step keeps the invariant.                                         *)
LEMMA NextInv == IInv /\ [Next]_vars => IInv'
<1> SUFFICES ASSUME IInv, [Next]_vars PROVE IInv'
  OBVIOUS
<1>1. CASE UNCHANGED vars
  <2>1. UNCHANGED <<prodPtr, consPtr, enabled, opIndex, opActive, opCommit, opQueue, opPtr,
                    startPtr, finishPtr, pipe, resp, fetch, rung>>
    BY <1>1 DEF vars, queueVars, tableVars
  <2>2. Typing'
    BY <2>1 DEF IInv, Typing
  <2>3. RequestFits'
    BY <2>1 DEF IInv, RequestFits, Idle
  <2> QED  BY <2>1, <2>2, <2>3, TableStays
<1>2. CASE HostWrite
  BY <1>2, HostKept
<1>3. CASE AcceptCommit
  BY <1>3, CommitKept
<1>4. CASE \E q \in Queue, n \in Wqe : AcceptReq(q, n)
  BY <1>4, RequestKept
<1>5. CASE PerformReq
  BY <1>5, DequeueKept
<1>6. CASE PerformCommit \/ PerformProd \/ PerformCons \/ PerformEnable
  BY <1>6, PerformKept
<1>7. CASE TakeResp
  BY <1>7, AnswerKept
<1>8. CASE RecordCommit
  BY <1>8, RecordKept
<1> QED  BY <1>1, <1>2, <1>3, <1>4, <1>5, <1>6, <1>7, <1>8 DEF Next, Hardware

(* The operation table is a queue of slots, and a queue with operations in *)
(* the table remembers the newest (op_table_start_ptr_reg and              *)
(* op_table_finish_ptr_reg, tx_queue_manager_change.v).                    *)
THEOREM TableStaysQueue == Spec => []TableIsQueue
<1>1. IInv => TableIsQueue
  BY DEF IInv
<1> QED  BY <1>1, InitInv, NextInv, PTL DEF Spec

(* A commit from desc_fetch never reaches another operation than its own:  *)
(* DESC_TABLE_SIZE entries do not reach round OP_TABLE_SIZE slots.         *)
THEOREM CommitsReachTheirOwn == Spec => []CommitsStayHome
<1>1. IInv => CommitsStayHome
  <2> SUFFICES ASSUME IInv, NEW i \in DOMAIN fetch
               PROVE  LET s == fetch[i].slot
                          ahead == \E j \in 1 .. i - 1 : fetch[j] = [slot |-> s, first |-> TRUE]
                      IN  IF fetch[i].first THEN opActive[s] /\ ~opCommit[s]
                          ELSE ahead \/ ~opActive[s] \/ opCommit[s]
    BY DEF CommitsStayHome
  <2>1. DOMAIN fetch = 1 .. Len(fetch) /\ Len(fetch) \in Nat
        /\ \A j \in 1 .. Len(fetch) : fetch[j] \in Entry
    BY ElementOfSeq, LenProperties DEF IInv, Typing
  <2>2. \A j \in 1 .. i - 1 : j \in 1 .. Len(fetch)
    BY <2>1
  <2>3. \A e \in Entry : e.first => e = [slot |-> e.slot, first |-> TRUE]
    BY DEF Entry
  <2>4. Home(fetch, opActive, opCommit)
    BY DEF IInv
  <2>5. \A j \in 1 .. i - 1 : fetch[j].slot = fetch[i].slot /\ fetch[j].first =>
           fetch[j] = [slot |-> fetch[i].slot, first |-> TRUE]
    BY <2>1, <2>2, <2>3
  <2> QED  BY <2>4, <2>5 DEF Home
<1> QED  BY <1>1, InitInv, NextInv, PTL DEF Spec
-----------------------------------------------------------------------------
(* The promise of DescriptorRow: the pointers of one queue.                *)

Ptr == 0 .. PtrMod - 1

(* There is one operation of a queue in the pipeline at most.              *)
Apart(ps) == \A i, j \in DOMAIN ps : ps[i].queue = ps[j].queue => i = j

(* How far a pointer is after the consumer pointer of the queue.           *)
Offset(q, p) == Minus(p, consPtr[q])

(* An operation under way carries what its queue holds, and what made it   *)
(* acceptable is still true.                                               *)
Current(op) ==
    /\ op.prod = prodPtr[op.queue] /\ op.cons = consPtr[op.queue]
    /\ op.enabled = enabled[op.queue] /\ op.index = opIndex[op.queue]
Unused(q) == ~enabled[q] /\ rung[q] = 0 /\ SlotsOf(q) = {}
Publishes(q, p) ==
    /\ enabled[q]
    /\ \E n \in Wqe : p = Plus(prodPtr[q], n) /\ Offset(q, prodPtr[q]) + n <= RingSize
Reopens(q) == Unused(q) /\ prodPtr[q] = 0 /\ consPtr[q] = 0
Justified(q, op) ==
    /\ op.kind = "prod" => Publishes(q, op.data) \/ (Unused(q) /\ op.data = 0)
    /\ op.kind = "cons" => Unused(q) /\ op.data = 0
    /\ op.kind = "enable" => op.data = 0 \/ Reopens(q)
    /\ op.kind = "commit" =>
         /\ op.data \in Ptr
         /\ \A s \in SlotsOf(q) : Offset(q, op.data) < Offset(q, opPtr[s])
    /\ op.kind = "req" =>
         /\ op.data \in Wqe
         /\ Offset(q, NextPtr(q)) + rung[q] + op.data <= Offset(q, prodPtr[q])

(* The slots of a queue end at pointers in the order in which they were    *)
(* taken, from the consumer pointer to the next descriptor; what has been  *)
(* rung for is after that and has been published.                          *)
Row(q) ==
    /\ prodPtr[q] \in Ptr /\ consPtr[q] \in Ptr /\ rung[q] \in Nat
    /\ NextPtr(q) \in Ptr
    /\ Offset(q, NextPtr(q)) + rung[q] <= Offset(q, prodPtr[q])
    /\ enabled[q] => Offset(q, prodPtr[q]) <= RingSize
    /\ \A s \in SlotsOf(q) :
         opPtr[s] \in Ptr /\ Offset(q, opPtr[s]) <= Offset(q, NextPtr(q))
    /\ \A s, t \in SlotsOf(q) :
         Age(s) < Age(t) => Offset(q, opPtr[s]) < Offset(q, opPtr[t])
    /\ \A op \in InPipeline(q) : Current(op) /\ Justified(q, op)

RowsInv ==
    /\ IInv
    /\ Apart(pipe)
    /\ rung \in [Queue -> Nat]
    /\ \A q \in Queue : Row(q)

-----------------------------------------------------------------------------
(* Arithmetic of pointers.                                                 *)

(* The size of a pointer, alone.                                           *)
LEMMA PtrSize == PtrMod \in Nat \ {0} /\ RingSize \in Nat /\ RingSize < PtrMod
BY SizeAssumption

(* The distance from one pointer to another.                               *)
LEMMA MinusValue ==
    ASSUME NEW p \in Ptr, NEW r \in Ptr
    PROVE  /\ Minus(p, r) = IF r <= p THEN p - r ELSE p + PtrMod - r
           /\ Minus(p, r) \in Ptr
<1> DEFINE d == p + PtrMod - r
<1>1. d \in Nat /\ d < PtrMod + PtrMod
  BY PtrSize DEF Ptr
<1> HIDE DEF d
<1>2. /\ d < PtrMod => d % PtrMod = d
      /\ PtrMod <= d => d % PtrMod = d - PtrMod
  BY <1>1, PtrSize, ModCases
<1> QED  BY <1>1, <1>2, PtrSize DEF d, Minus, Ptr

(* A pointer n further.                                                    *)
LEMMA PlusValue ==
    ASSUME NEW p \in Ptr, NEW n \in Nat, n < PtrMod
    PROVE  /\ Plus(p, n) = IF p + n < PtrMod THEN p + n ELSE p + n - PtrMod
           /\ Plus(p, n) \in Ptr
<1> DEFINE d == p + n
<1>1. d \in Nat /\ d < PtrMod + PtrMod
  BY PtrSize DEF Ptr
<1> HIDE DEF d
<1>2. /\ d < PtrMod => d % PtrMod = d
      /\ PtrMod <= d => d % PtrMod = d - PtrMod
  BY <1>1, PtrSize, ModCases
<1> QED  BY <1>1, <1>2, PtrSize DEF d, Plus, Ptr

(* A pointer that moves on less than once round is that much further.      *)
LEMMA Advance ==
    ASSUME NEW p \in Ptr, NEW c \in Ptr, NEW n \in Nat, Minus(p, c) + n < PtrMod
    PROVE  Plus(p, n) \in Ptr /\ Minus(Plus(p, n), c) = Minus(p, c) + n
<1>1. Minus(p, c) = (IF c <= p THEN p - c ELSE p + PtrMod - c) /\ Minus(p, c) \in Ptr
  BY MinusValue
<1>2. n < PtrMod
  BY <1>1, PtrSize DEF Ptr
<1>3. Plus(p, n) = (IF p + n < PtrMod THEN p + n ELSE p + n - PtrMod) /\ Plus(p, n) \in Ptr
  BY <1>2, PlusValue
<1>4. Minus(Plus(p, n), c) =
        IF c <= Plus(p, n) THEN Plus(p, n) - c ELSE Plus(p, n) + PtrMod - c
  BY <1>3, MinusValue
<1> QED  BY <1>1, <1>3, <1>4, PtrSize DEF Ptr

(* The distance from a pointer in between.                                 *)
LEMMA Rebase ==
    ASSUME NEW p \in Ptr, NEW c \in Ptr, NEW d \in Ptr, Minus(d, c) <= Minus(p, c)
    PROVE  Minus(p, d) = Minus(p, c) - Minus(d, c)
<1>1. /\ Minus(p, c) = IF c <= p THEN p - c ELSE p + PtrMod - c
      /\ Minus(d, c) = IF c <= d THEN d - c ELSE d + PtrMod - c
      /\ Minus(p, d) = IF d <= p THEN p - d ELSE p + PtrMod - d
  BY MinusValue
<1> QED  BY <1>1, PtrSize DEF Ptr

(* A pointer is nothing away from itself.                                  *)
LEMMA MinusSelf ==
    ASSUME NEW p \in Ptr
    PROVE  Minus(p, p) = 0
BY MinusValue DEF Ptr

(* A pointer is a number, and 0 is a pointer.                              *)
LEMMA PtrNumber == 0 \in Ptr /\ \A p \in Ptr : p \in Nat /\ p < PtrMod
BY PtrSize DEF Ptr

-----------------------------------------------------------------------------
(* The operations of a queue in the pipeline.                              *)

OpsOf(ps, q) == {op \in {ps[i] : i \in DOMAIN ps} : op.queue = q}

(* An operation of a queue that has none there enters.                     *)
LEMMA OpEnters ==
    ASSUME NEW ps \in Seq(Op), Apart(ps), NEW op \in Op,
           \A i \in DOMAIN ps : ps[i].queue # op.queue
    PROVE  /\ Apart(Append(ps, op))
           /\ OpsOf(ps, op.queue) = {}
           /\ OpsOf(Append(ps, op), op.queue) = {op}
           /\ \A r : r # op.queue => OpsOf(Append(ps, op), r) = OpsOf(ps, r)
<1>1. /\ Append(ps, op) \in Seq(Op)
      /\ Len(Append(ps, op)) = Len(ps) + 1
      /\ \A i \in 1 .. Len(ps) : Append(ps, op)[i] = ps[i]
      /\ Append(ps, op)[Len(ps) + 1] = op
  BY AppendProperties
<1>2. DOMAIN ps = 1 .. Len(ps) /\ DOMAIN Append(ps, op) = 1 .. Len(ps) + 1 /\ Len(ps) \in Nat
  BY <1>1, LenProperties
<1> DEFINE new == Append(ps, op)
           last == Len(ps) + 1
<1>3. /\ DOMAIN new = DOMAIN ps \union {last} /\ last \notin DOMAIN ps
      /\ new[last] = op /\ \A i \in DOMAIN ps : new[i] = ps[i]
  BY <1>1, <1>2
<1> HIDE DEF new, last
<1>4. Apart(new)
  BY <1>3 DEF Apart
<1>5. OpsOf(ps, op.queue) = {}
  BY DEF OpsOf
<1>6. OpsOf(new, op.queue) = {op}
  BY <1>3 DEF OpsOf
<1>7. ASSUME NEW r, r # op.queue PROVE OpsOf(new, r) = OpsOf(ps, r)
  BY <1>3, <1>7 DEF OpsOf
<1> QED  BY <1>4, <1>5, <1>6, <1>7 DEF new

(* The oldest operation leaves, and its queue has none there.              *)
LEMMA OpLeaves ==
    ASSUME NEW ps \in Seq(Op), Apart(ps), ps # <<>>
    PROVE  /\ Head(ps) \in Op
           /\ Apart(Tail(ps))
           /\ OpsOf(ps, Head(ps).queue) = {Head(ps)}
           /\ OpsOf(Tail(ps), Head(ps).queue) = {}
           /\ \A r : r # Head(ps).queue => OpsOf(Tail(ps), r) = OpsOf(ps, r)
<1>1. /\ Head(ps) \in Op /\ Tail(ps) \in Seq(Op)
      /\ Len(Tail(ps)) = Len(ps) - 1
      /\ \A i \in 1 .. Len(Tail(ps)) : Tail(ps)[i] = ps[i + 1]
  BY HeadTailProperties
<1>2. /\ DOMAIN ps = 1 .. Len(ps) /\ DOMAIN Tail(ps) = 1 .. Len(ps) - 1
      /\ Len(ps) \in Nat \ {0} /\ Head(ps) = ps[1]
  BY <1>1, LenProperties, EmptySeq
<1> DEFINE t == Tail(ps)
           h == Head(ps)
<1>3. 1 \in DOMAIN ps /\ ps[1] = h
  BY <1>2
<1>4. \A i \in DOMAIN t : i \in Nat /\ i + 1 \in DOMAIN ps /\ i + 1 # 1 /\ t[i] = ps[i + 1]
  BY <1>1, <1>2
<1>5. \A j \in DOMAIN ps : j = 1 \/ \E i \in DOMAIN t : t[i] = ps[j]
  <2> SUFFICES ASSUME NEW j \in DOMAIN ps, j # 1 PROVE \E i \in DOMAIN t : t[i] = ps[j]
    OBVIOUS
  <2>1. j - 1 \in DOMAIN t /\ (j - 1) + 1 = j
    BY <1>2
  <2>2. t[j - 1] = ps[j]
    BY <1>4, <2>1
  <2> QED  BY <2>1, <2>2
<1> HIDE DEF t, h
<1>6. Apart(t)
  <2> SUFFICES ASSUME NEW i \in DOMAIN t, NEW j \in DOMAIN t, t[i].queue = t[j].queue
               PROVE  i = j
    BY DEF Apart
  <2>1. i + 1 = j + 1
    BY <1>4 DEF Apart
  <2> QED  BY <1>4, <2>1
<1>7. \A i \in DOMAIN ps : ps[i].queue = h.queue => ps[i] = h
  BY <1>3 DEF Apart
<1>8. OpsOf(ps, h.queue) = {h}
  BY <1>3, <1>7 DEF OpsOf
<1>9. \A i \in DOMAIN t : t[i].queue # h.queue
  BY <1>3, <1>4 DEF Apart
<1>10. OpsOf(t, h.queue) = {}
  BY <1>9 DEF OpsOf
<1>11. ASSUME NEW r, r # h.queue PROVE OpsOf(t, r) = OpsOf(ps, r)
  <2>1. \A op \in OpsOf(t, r) : op \in OpsOf(ps, r)
    BY <1>4 DEF OpsOf
  <2>2. \A op \in OpsOf(ps, r) : op \in OpsOf(t, r)
    BY <1>3, <1>5, <1>11 DEF OpsOf
  <2> QED  BY <2>1, <2>2
<1> QED  BY <1>1, <1>6, <1>8, <1>10, <1>11 DEF t, h

(* What the refinement mapping sees of the pipeline.                       *)
LEMMA PipelineSeen ==
    ASSUME NEW q
    PROVE  InPipeline(q) = OpsOf(pipe, q) /\ InPipeline(q)' = OpsOf(pipe', q)
BY DEF InPipeline, OpsOf

(* The next descriptor and the dequeues of a queue, from its slots and its *)
(* operation under way.                                                    *)
NextOf(slots, ptr, index, ops, cons) ==
    IF index \in slots THEN ptr[index]
    ELSE IF {op \in ops : op.kind = "commit"} = {} THEN cons
    ELSE (CHOOSE op \in {op \in ops : op.kind = "commit"} : TRUE).data
TakenOf(slots, ptr, commit, ops) ==
    {[upto |-> ptr[s], done |-> commit[s]] : s \in slots}
      \union {[upto |-> op.data, done |-> TRUE] : op \in {o \in ops : o.kind = "commit"}}

(* They are what the mapping computes.                                     *)
LEMMA RowSeen ==
    ASSUME NEW q
    PROVE  /\ NextPtr(q) = NextOf(SlotsOf(q), opPtr, opIndex[q], InPipeline(q), consPtr[q])
           /\ TakenOps(q) = TakenOf(SlotsOf(q), opPtr, opCommit, InPipeline(q))
BY DEF NextPtr, TakenOps, NextOf, TakenOf, Leaving

(* The same of the next state.                                             *)
LEMMA RowSeenNext ==
    ASSUME NEW q
    PROVE  /\ NextPtr(q)' = NextOf(SlotsOf(q)', opPtr', opIndex'[q], InPipeline(q)', consPtr'[q])
           /\ TakenOps(q)' = TakenOf(SlotsOf(q)', opPtr', opCommit', InPipeline(q)')
BY DEF NextPtr, TakenOps, NextOf, TakenOf, Leaving

(* The newest slot of a queue ends where the next dequeue starts.          *)
LEMMA NextNewest ==
    ASSUME NEW slots, NEW ptr, NEW index, NEW ops, NEW cons, index \in slots
    PROVE  NextOf(slots, ptr, index, ops, cons) = ptr[index]
BY DEF NextOf

(* Without slots, that is where a commit under way will put the consumer   *)
(* pointer, or where the pointer is.                                       *)
LEMMA NextNone ==
    ASSUME NEW slots, NEW ptr, NEW index, NEW cons, index \notin slots
    PROVE  NextOf(slots, ptr, index, {}, cons) = cons
<1>1. {o \in {} : o.kind = "commit"} = {}
  OBVIOUS
<1> QED  BY <1>1 DEF NextOf

(* The same with an operation under way.                                   *)
LEMMA NextOne ==
    ASSUME NEW slots, NEW ptr, NEW index, NEW cons, NEW op, index \notin slots
    PROVE  /\ op.kind # "commit" => NextOf(slots, ptr, index, {op}, cons) = cons
           /\ op.kind = "commit" => NextOf(slots, ptr, index, {op}, cons) = op.data
<1>1. op.kind # "commit" => {o \in {op} : o.kind = "commit"} = {}
  OBVIOUS
<1>2. op.kind = "commit" => {o \in {op} : o.kind = "commit"} = {op}
  OBVIOUS
<1>3. (CHOOSE o \in {op} : TRUE) = op
  OBVIOUS
<1> QED  BY <1>1, <1>2, <1>3 DEF NextOf

(* An operation under way that is no commit makes no difference.           *)
LEMMA NextOther ==
    ASSUME NEW slots, NEW ptr, NEW index, NEW cons, NEW op, op.kind # "commit"
    PROVE  NextOf(slots, ptr, index, {op}, cons) = NextOf(slots, ptr, index, {}, cons)
<1>1. {o \in {op} : o.kind = "commit"} = {} /\ {o \in {} : o.kind = "commit"} = {}
  OBVIOUS
<1> QED  BY <1>1 DEF NextOf

(* The dequeues not given back are those of the slots.                     *)
LEMMA TakenNone ==
    ASSUME NEW slots, NEW ptr, NEW commit
    PROVE  TakenOf(slots, ptr, commit, {}) = {[upto |-> ptr[s], done |-> commit[s]] : s \in slots}
<1>1. {o \in {} : o.kind = "commit"} = {}
  OBVIOUS
<1> QED  BY <1>1 DEF TakenOf

(* And the one of a commit under way.                                      *)
LEMMA TakenOne ==
    ASSUME NEW slots, NEW ptr, NEW commit, NEW op
    PROVE  /\ op.kind # "commit" =>
                TakenOf(slots, ptr, commit, {op}) = TakenOf(slots, ptr, commit, {})
           /\ op.kind = "commit" =>
                TakenOf(slots, ptr, commit, {op}) =
                  TakenOf(slots, ptr, commit, {}) \union {[upto |-> op.data, done |-> TRUE]}
<1>1. {o \in {} : o.kind = "commit"} = {}
  OBVIOUS
<1>2. op.kind # "commit" => {o \in {op} : o.kind = "commit"} = {}
  OBVIOUS
<1>3. op.kind = "commit" => {o \in {op} : o.kind = "commit"} = {op}
  OBVIOUS
<1> QED  BY <1>1, <1>2, <1>3 DEF TakenOf

-----------------------------------------------------------------------------
(* A step that does not touch a queue leaves its row as it is.             *)
LEMMA RowStays ==
    ASSUME NEW q \in Queue, Row(q),
           prodPtr'[q] = prodPtr[q], consPtr'[q] = consPtr[q], enabled'[q] = enabled[q],
           opIndex'[q] = opIndex[q], rung'[q] = rung[q],
           InPipeline(q)' = InPipeline(q), SlotsOf(q)' = SlotsOf(q),
           \A s \in SlotsOf(q) : opPtr'[s] = opPtr[s],
           \A s, t \in SlotsOf(q) : Age(s)' < Age(t)' => Age(s) < Age(t)
    PROVE  Row(q)' /\ NextPtr(q)' = NextPtr(q)
<1>1. NextPtr(q)' = NextPtr(q)
  BY RowSeen, RowSeenNext DEF NextOf
<1>2. ASSUME NEW op \in InPipeline(q) PROVE Current(op)' /\ Justified(q, op)'
  <2>1. op.queue = q
    BY DEF InPipeline
  <2>2. Current(op) /\ Justified(q, op)
    BY DEF Row
  <2>3. Current(op)'
    BY <2>1, <2>2 DEF Current
  <2>4. Unused(q)' <=> Unused(q)
    BY DEF Unused
  <2>5. op.kind = "prod" => Publishes(q, op.data)' \/ (Unused(q)' /\ op.data = 0)
    BY <2>2, <2>4 DEF Justified, Publishes, Offset
  <2>6. /\ op.kind = "cons" => Unused(q)' /\ op.data = 0
        /\ op.kind = "enable" => op.data = 0 \/ Reopens(q)'
    BY <2>2, <2>4 DEF Justified, Reopens
  <2>7. op.kind = "commit" =>
           /\ op.data \in Ptr
           /\ \A s \in SlotsOf(q)' : Minus(op.data, consPtr'[q]) < Minus(opPtr'[s], consPtr'[q])
    BY <2>2 DEF Justified, Offset
  <2>8. op.kind = "req" =>
           /\ op.data \in Wqe
           /\ Minus(NextPtr(q)', consPtr'[q]) + rung'[q] + op.data
                <= Minus(prodPtr'[q], consPtr'[q])
    BY <1>1, <2>2 DEF Justified, Offset
  <2> QED  BY <2>3, <2>5, <2>6, <2>7, <2>8 DEF Justified, Offset
<1>3. /\ prodPtr'[q] \in Ptr /\ consPtr'[q] \in Ptr /\ rung'[q] \in Nat
      /\ NextPtr(q)' \in Ptr
      /\ Minus(NextPtr(q)', consPtr'[q]) + rung'[q] <= Minus(prodPtr'[q], consPtr'[q])
      /\ enabled'[q] => Minus(prodPtr'[q], consPtr'[q]) <= RingSize
  BY <1>1 DEF Row, Offset
<1>4. \A s \in SlotsOf(q)' :
         /\ opPtr'[s] \in Ptr
         /\ Minus(opPtr'[s], consPtr'[q]) <= Minus(NextPtr(q)', consPtr'[q])
  BY <1>1 DEF Row, Offset
<1>5. \A s, t \in SlotsOf(q)' : Age(s)' < Age(t)' =>
         Minus(opPtr'[s], consPtr'[q]) < Minus(opPtr'[t], consPtr'[q])
  BY DEF Row, Offset
<1>6. Row(q)'
  BY <1>2, <1>3, <1>4, <1>5 DEF Row, Offset
<1> QED  BY <1>1, <1>6

(* Its dequeues are the same if nothing of them changes.                   *)
LEMMA TakenStays ==
    ASSUME NEW q \in Queue,
           InPipeline(q)' = InPipeline(q), SlotsOf(q)' = SlotsOf(q),
           \A s \in SlotsOf(q) : opPtr'[s] = opPtr[s] /\ opCommit'[s] = opCommit[s]
    PROVE  TakenOps(q)' = TakenOps(q)
<1>1. {[upto |-> opPtr'[s], done |-> opCommit'[s]] : s \in SlotsOf(q)}
         = {[upto |-> opPtr[s], done |-> opCommit[s]] : s \in SlotsOf(q)}
  OBVIOUS
<1> QED  BY <1>1, RowSeen, RowSeenNext DEF TakenOf

(* What DescriptorRow sees of a queue stays the same.                      *)
Same(q) == NextPtr(q)' = NextPtr(q) /\ TakenOps(q)' = TakenOps(q)

(* An operation other than a commit enters the pipeline.                   *)
LEMMA RowEnters ==
    ASSUME RowsInv, NEW op \in Op, ~Hazard(op.queue), op.kind # "commit", Current(op),
           pipe' = Append(pipe, op), UNCHANGED <<queueVars, tableVars>>,
           rung'[op.queue] \in Nat, rung'[op.queue] <= rung[op.queue],
           \A r \in Queue : r # op.queue => rung'[r] = rung[r],
           op.kind = "prod" => Publishes(op.queue, op.data) \/ (Unused(op.queue) /\ op.data = 0),
           op.kind = "cons" => Unused(op.queue) /\ op.data = 0,
           op.kind = "enable" => op.data = 0 \/ Reopens(op.queue),
           op.kind # "req" => rung'[op.queue] = rung[op.queue],
           op.kind = "req" => op.data \in Wqe /\ rung[op.queue] = rung'[op.queue] + op.data
    PROVE  Apart(pipe)' /\ \A r \in Queue : Row(r)' /\ Same(r)
<1> DEFINE q == op.queue
<1>1. pipe \in Seq(Op) /\ Apart(pipe) /\ q \in Queue /\ Row(q)
  BY DEF RowsInv, IInv, Typing, Op
<1>2. \A i \in DOMAIN pipe : pipe[i].queue # q
  BY DEF Hazard
<1>3. /\ Apart(pipe')
      /\ InPipeline(q) = {} /\ InPipeline(q)' = {op}
      /\ \A r : r # q => InPipeline(r)' = InPipeline(r)
  <2>1. /\ Apart(Append(pipe, op)) /\ OpsOf(pipe, q) = {} /\ OpsOf(Append(pipe, op), q) = {op}
        /\ \A r : r # q => OpsOf(Append(pipe, op), r) = OpsOf(pipe, r)
    BY <1>1, <1>2, OpEnters
  <2>2. \A r : InPipeline(r) = OpsOf(pipe, r) /\ InPipeline(r)' = OpsOf(pipe', r)
    BY PipelineSeen
  <2> QED  BY <2>1, <2>2
<1>4. UNCHANGED <<prodPtr, consPtr, enabled, opIndex, opActive, opCommit, opQueue, opPtr,
                  startPtr, finishPtr>>
  BY DEF queueVars, tableVars
<1>5. \A r : SlotsOf(r)' = SlotsOf(r)
  BY <1>4 DEF SlotsOf
<1>6. \A s : Age(s)' = Age(s)
  BY <1>4 DEF Age
<1> HIDE DEF q
<1>7. ASSUME NEW r \in Queue, r # q PROVE Row(r)' /\ Same(r)
  <2>1. Row(r)
    BY DEF RowsInv
  <2>2. rung'[r] = rung[r]
    BY <1>7 DEF q
  <2>3. InPipeline(r)' = InPipeline(r) /\ SlotsOf(r)' = SlotsOf(r)
    BY <1>3, <1>5, <1>7
  <2>4. Row(r)' /\ NextPtr(r)' = NextPtr(r)
    BY <1>4, <1>6, <2>1, <2>2, <2>3, RowStays
  <2>5. TakenOps(r)' = TakenOps(r)
    BY <1>4, <2>3, TakenStays
  <2> QED  BY <2>4, <2>5 DEF Same
<1>8. NextPtr(q)' = NextPtr(q)
  <2>1. NextPtr(q) = NextOf(SlotsOf(q), opPtr, opIndex[q], {}, consPtr[q])
    BY <1>3, RowSeen
  <2>2. NextPtr(q)' = NextOf(SlotsOf(q), opPtr, opIndex[q], {op}, consPtr[q])
    BY <1>3, <1>4, <1>5, RowSeenNext
  <2> QED  BY <2>1, <2>2, NextOther, NextNone
<1>9. TakenOps(q)' = TakenOps(q)
  <2>1. TakenOps(q) = TakenOf(SlotsOf(q), opPtr, opCommit, {})
    BY <1>3, RowSeen
  <2>2. TakenOps(q)' = TakenOf(SlotsOf(q), opPtr, opCommit, {op})
    BY <1>3, <1>4, <1>5, RowSeenNext
  <2> QED  BY <2>1, <2>2, TakenNone, TakenOne
<1>10. Row(q)'
  <2>1. /\ prodPtr[q] \in Ptr /\ consPtr[q] \in Ptr /\ rung[q] \in Nat
        /\ NextPtr(q) \in Ptr
        /\ Offset(q, NextPtr(q)) + rung[q] <= Offset(q, prodPtr[q])
        /\ enabled[q] => Offset(q, prodPtr[q]) <= RingSize
        /\ \A s \in SlotsOf(q) :
             opPtr[s] \in Ptr /\ Offset(q, opPtr[s]) <= Offset(q, NextPtr(q))
        /\ \A s, t \in SlotsOf(q) :
             Age(s) < Age(t) => Offset(q, opPtr[s]) < Offset(q, opPtr[t])
    BY <1>1 DEF Row
  <2>2. rung'[q] \in Nat /\ rung'[q] <= rung[q]
    BY DEF q
  <2>3. Minus(NextPtr(q), consPtr[q]) \in Nat /\ Minus(prodPtr[q], consPtr[q]) \in Nat
    <3>1. Minus(NextPtr(q), consPtr[q]) \in Ptr /\ Minus(prodPtr[q], consPtr[q]) \in Ptr
      BY <2>1, MinusValue
    <3> QED  BY <3>1, PtrNumber
  <2>4. Current(op)'
    BY <1>4 DEF Current
  <2>5. Justified(q, op)'
    <3>1. op.kind = "prod" => Publishes(q, op.data)' \/ (Unused(q)' /\ op.data = 0)
      <4>1. op.kind = "prod" => rung'[q] = rung[q]
        BY DEF q
      <4> QED  BY <1>4, <1>5, <4>1 DEF Publishes, Unused, Offset, q
    <3>2. op.kind = "cons" => Unused(q)' /\ op.data = 0
      BY <1>4, <1>5 DEF Unused, q
    <3>3. op.kind = "enable" => op.data = 0 \/ Reopens(q)'
      BY <1>4, <1>5 DEF Unused, Reopens, q
    <3>4. op.kind = "req" =>
             /\ op.data \in Wqe
             /\ Minus(NextPtr(q)', consPtr'[q]) + rung'[q] + op.data
                  <= Minus(prodPtr'[q], consPtr'[q])
      <4>1. ASSUME op.kind = "req"
            PROVE  Minus(NextPtr(q), consPtr[q]) + rung'[q] + op.data
                     <= Minus(prodPtr[q], consPtr[q])
        <5>1. rung[q] = rung'[q] + op.data /\ op.data \in Nat
          BY <4>1 DEF q, Op
        <5> QED  BY <2>1, <2>2, <2>3, <5>1 DEF Offset
      <4> QED  BY <1>4, <1>8, <4>1 DEF q
    <3> QED  BY <3>1, <3>2, <3>3, <3>4 DEF Justified, Offset
  <2>6. Minus(NextPtr(q)', consPtr'[q]) + rung'[q] <= Minus(prodPtr'[q], consPtr'[q])
    BY <1>4, <1>8, <2>1, <2>2, <2>3 DEF Offset
  <2>7. /\ prodPtr'[q] \in Ptr /\ consPtr'[q] \in Ptr /\ rung'[q] \in Nat
        /\ NextPtr(q)' \in Ptr
        /\ enabled'[q] => Minus(prodPtr'[q], consPtr'[q]) <= RingSize
        /\ \A s \in SlotsOf(q)' :
             opPtr'[s] \in Ptr
             /\ Minus(opPtr'[s], consPtr'[q]) <= Minus(NextPtr(q)', consPtr'[q])
        /\ \A s, t \in SlotsOf(q)' : Age(s)' < Age(t)' =>
             Minus(opPtr'[s], consPtr'[q]) < Minus(opPtr'[t], consPtr'[q])
    BY <1>4, <1>5, <1>6, <1>8, <2>1, <2>2 DEF Offset
  <2>8. \A o \in InPipeline(q)' : Current(o)' /\ Justified(q, o)'
    BY <1>3, <2>4, <2>5
  <2> QED  BY <2>6, <2>7, <2>8 DEF Row, Offset
<1>11. \A r \in Queue : Row(r)' /\ Same(r)
  BY <1>7, <1>8, <1>9, <1>10 DEF Same
<1> QED  BY <1>3, <1>11

-----------------------------------------------------------------------------
(* The operation performed is the only one of its queue.                   *)
LEMMA HeadLeaves ==
    ASSUME RowsInv, pipe # <<>>, pipe' = Tail(pipe)
    PROVE  \E op \in Op, q \in Queue :
             /\ op = Head(pipe) /\ q = op.queue /\ Apart(pipe')
             /\ InPipeline(q) = {op} /\ InPipeline(q)' = {}
             /\ \A r : r # q => InPipeline(r)' = InPipeline(r)
             /\ Row(q) /\ Current(op) /\ Justified(q, op)
<1>1. pipe \in Seq(Op) /\ Apart(pipe)
  BY DEF RowsInv, IInv, Typing
<1>2. /\ Head(pipe) \in Op /\ Apart(Tail(pipe))
      /\ OpsOf(pipe, Head(pipe).queue) = {Head(pipe)}
      /\ OpsOf(Tail(pipe), Head(pipe).queue) = {}
      /\ \A r : r # Head(pipe).queue => OpsOf(Tail(pipe), r) = OpsOf(pipe, r)
  BY <1>1, OpLeaves
<1>3. PICK op \in Op : op = Head(pipe)
  BY <1>2
<1>4. PICK q \in Queue : q = op.queue
  BY DEF Op
<1>5. /\ InPipeline(q) = {op} /\ InPipeline(q)' = {} /\ Apart(pipe')
      /\ \A r : r # q => InPipeline(r)' = InPipeline(r)
  BY <1>2, <1>3, <1>4, PipelineSeen
<1>6. Row(q)
  BY DEF RowsInv
<1>7. Current(op) /\ Justified(q, op)
  BY <1>5, <1>6 DEF Row
<1> QED  BY <1>3, <1>4, <1>5, <1>6, <1>7

(* Performing it leaves the other rows as they are, when it is no dequeue. *)
LEMMA OthersStay ==
    ASSUME RowsInv, pipe # <<>>, pipe' = Tail(pipe), UNCHANGED <<opIndex, tableVars>>,
           NEW q \in Queue, q = Head(pipe).queue,
           \A r \in Queue : r # q =>
               /\ prodPtr'[r] = prodPtr[r] /\ consPtr'[r] = consPtr[r]
               /\ enabled'[r] = enabled[r] /\ rung'[r] = rung[r]
    PROVE  /\ \A r : SlotsOf(r)' = SlotsOf(r)
           /\ \A s : Age(s)' = Age(s)
           /\ \A r \in Queue : r # q => Row(r)' /\ Same(r)
           /\ UNCHANGED <<opPtr, opCommit, opIndex>>
<1>1. \A r : r # q => InPipeline(r)' = InPipeline(r)
  <2>1. PICK op \in Op, p \in Queue :
          /\ op = Head(pipe) /\ p = op.queue
          /\ \A r : r # p => InPipeline(r)' = InPipeline(r)
    BY HeadLeaves
  <2> QED  BY <2>1
<1>2. UNCHANGED <<opIndex, opActive, opCommit, opQueue, opPtr, startPtr, finishPtr>>
  BY DEF tableVars
<1>3. \A r : SlotsOf(r)' = SlotsOf(r)
  BY <1>2 DEF SlotsOf
<1>4. \A s : Age(s)' = Age(s)
  BY <1>2 DEF Age
<1>5. ASSUME NEW r \in Queue, r # q PROVE Row(r)' /\ Same(r)
  <2>1. Row(r)
    BY DEF RowsInv
  <2>2. InPipeline(r)' = InPipeline(r) /\ SlotsOf(r)' = SlotsOf(r)
    BY <1>1, <1>3, <1>5
  <2>3. prodPtr'[r] = prodPtr[r] /\ consPtr'[r] = consPtr[r]
        /\ enabled'[r] = enabled[r] /\ rung'[r] = rung[r]
    BY <1>5
  <2>4. Row(r)' /\ NextPtr(r)' = NextPtr(r)
    BY <1>2, <1>4, <2>1, <2>2, <2>3, RowStays
  <2>5. TakenOps(r)' = TakenOps(r)
    BY <1>2, <2>2, TakenStays
  <2> QED  BY <2>4, <2>5 DEF Same
<1> QED  BY <1>2, <1>3, <1>4, <1>5

(* A row with nothing under way, in terms of distances.                    *)
LEMMA QuietRow ==
    ASSUME NEW q \in Queue, InPipeline(q)' = {},
           SlotsOf(q)' = SlotsOf(q), UNCHANGED opPtr, \A s : Age(s)' = Age(s),
           prodPtr'[q] \in Ptr, consPtr'[q] \in Ptr, rung'[q] \in Nat, NextPtr(q)' \in Ptr,
           Minus(NextPtr(q)', consPtr'[q]) + rung'[q] <= Minus(prodPtr'[q], consPtr'[q]),
           enabled'[q] => Minus(prodPtr'[q], consPtr'[q]) <= RingSize,
           \A s \in SlotsOf(q) :
               /\ opPtr[s] \in Ptr
               /\ Minus(opPtr[s], consPtr'[q]) <= Minus(NextPtr(q)', consPtr'[q]),
           \A s, t \in SlotsOf(q) : Age(s) < Age(t) =>
               Minus(opPtr[s], consPtr'[q]) < Minus(opPtr[t], consPtr'[q])
    PROVE  Row(q)'
BY DEF Row, Offset

(* A row before a step, in terms of distances.                             *)
LEMMA RowFacts ==
    ASSUME NEW q \in Queue, Row(q)
    PROVE  /\ prodPtr[q] \in Ptr /\ consPtr[q] \in Ptr /\ rung[q] \in Nat /\ NextPtr(q) \in Ptr
           /\ Minus(NextPtr(q), consPtr[q]) \in Nat
           /\ Minus(prodPtr[q], consPtr[q]) \in Nat
           /\ Minus(prodPtr[q], consPtr[q]) < PtrMod
           /\ Minus(NextPtr(q), consPtr[q]) + rung[q] <= Minus(prodPtr[q], consPtr[q])
           /\ enabled[q] => Minus(prodPtr[q], consPtr[q]) <= RingSize
           /\ \A s \in SlotsOf(q) :
               /\ opPtr[s] \in Ptr
               /\ Minus(opPtr[s], consPtr[q]) \in Nat
               /\ Minus(opPtr[s], consPtr[q]) <= Minus(NextPtr(q), consPtr[q])
           /\ \A s, t \in SlotsOf(q) : Age(s) < Age(t) =>
               Minus(opPtr[s], consPtr[q]) < Minus(opPtr[t], consPtr[q])
<1>1. prodPtr[q] \in Ptr /\ consPtr[q] \in Ptr /\ rung[q] \in Nat /\ NextPtr(q) \in Ptr
  BY DEF Row
<1>2. Minus(NextPtr(q), consPtr[q]) \in Ptr /\ Minus(prodPtr[q], consPtr[q]) \in Ptr
  BY <1>1, MinusValue
<1>3. \A s \in SlotsOf(q) : opPtr[s] \in Ptr
  BY DEF Row
<1>4. \A s \in SlotsOf(q) : Minus(opPtr[s], consPtr[q]) \in Ptr
  BY <1>1, <1>3, MinusValue
<1> QED  BY <1>1, <1>2, <1>3, <1>4, PtrNumber DEF Row, Offset

(* A queue with nothing under way is at its consumer pointer.              *)
LEMMA UnusedRow ==
    ASSUME NEW q \in Queue, NEW op, Row(q), Unused(q), InPipeline(q) = {op}, op.kind # "commit"
    PROVE  NextPtr(q) = consPtr[q] /\ TakenOps(q) = {}
<1>1. SlotsOf(q) = {}
  BY DEF Unused
<1>2. NextPtr(q) = consPtr[q]
  BY <1>1, RowSeen, NextOne
<1>3. TakenOps(q) = {}
  <2>1. TakenOps(q) = TakenOf({}, opPtr, opCommit, {})
    <3>1. TakenOps(q) = TakenOf({}, opPtr, opCommit, {op})
      BY <1>1, RowSeen
    <3> QED  BY <3>1, TakenOne
  <2> QED  BY <2>1, TakenNone
<1> QED  BY <1>2, <1>3

-----------------------------------------------------------------------------
(* What each operation looks like to the rows.                             *)

(* A producer pointer is performed: its queue publishes descriptors, or is *)
(* rewound.                                                                *)
LEMMA RowPublishes ==
    ASSUME RowsInv, PerformProd
    PROVE  /\ Apart(pipe)' /\ \A r \in Queue : Row(r)' /\ Same(r)
           /\ UNCHANGED <<consPtr, resp>>
           /\ \E q \in Queue :
               \/ \E n \in Wqe :
                    /\ Minus(prodPtr[q], consPtr[q]) + n < PtrMod
                    /\ prodPtr' = [prodPtr EXCEPT ![q] = Plus(@, n)]
               \/ TakenOps(q) = {} /\ prodPtr' = [prodPtr EXCEPT ![q] = 0]
<1>1. pipe # <<>> /\ Head(pipe).kind = "prod" /\ pipe' = Tail(pipe)
  BY DEF PerformProd
<1>2. PICK op \in Op, q \in Queue :
        /\ op = Head(pipe) /\ q = op.queue /\ Apart(pipe')
        /\ InPipeline(q) = {op} /\ InPipeline(q)' = {}
        /\ Row(q) /\ Current(op) /\ Justified(q, op)
  BY <1>1, HeadLeaves
<1>3. /\ prodPtr' = [prodPtr EXCEPT ![q] = op.data]
      /\ rung' = [rung EXCEPT ![q] = IF op.enabled THEN @ + Minus(op.data, op.prod) ELSE @]
      /\ UNCHANGED <<consPtr, enabled, opIndex, tableVars, resp, fetch>>
      /\ op.kind = "prod"
  BY <1>1, <1>2 DEF PerformProd
<1>4. prodPtr \in [Queue -> Nat] /\ rung \in [Queue -> Nat]
  BY DEF RowsInv, IInv, Typing
<1>5. /\ \A r : SlotsOf(r)' = SlotsOf(r)
      /\ \A s : Age(s)' = Age(s)
      /\ \A r \in Queue : r # q => Row(r)' /\ Same(r)
      /\ UNCHANGED <<opPtr, opCommit, opIndex>>
  <2>1. \A r \in Queue : r # q =>
               /\ prodPtr'[r] = prodPtr[r] /\ consPtr'[r] = consPtr[r]
               /\ enabled'[r] = enabled[r] /\ rung'[r] = rung[r]
    BY <1>3, <1>4
  <2> QED  BY <1>1, <1>2, <1>3, <2>1, OthersStay
<1>6. NextPtr(q)' = NextPtr(q) /\ TakenOps(q)' = TakenOps(q)
  <2>1. NextPtr(q)' = NextOf(SlotsOf(q), opPtr, opIndex[q], {}, consPtr[q])
        /\ TakenOps(q)' = TakenOf(SlotsOf(q), opPtr, opCommit, {})
    BY <1>2, <1>3, <1>5, RowSeenNext
  <2>2. NextPtr(q) = NextOf(SlotsOf(q), opPtr, opIndex[q], {op}, consPtr[q])
        /\ TakenOps(q) = TakenOf(SlotsOf(q), opPtr, opCommit, {op})
    BY <1>2, RowSeen
  <2>3. TakenOps(q)' = TakenOps(q)
    BY <1>3, <2>1, <2>2, TakenNone, TakenOne
  <2>4. NextPtr(q)' = NextPtr(q)
    BY <1>3, <2>1, <2>2, NextOther, NextNone
  <2> QED  BY <2>3, <2>4
<1>7. /\ consPtr[q] \in Ptr /\ prodPtr[q] \in Ptr /\ rung[q] \in Nat /\ NextPtr(q) \in Ptr
      /\ Minus(NextPtr(q), consPtr[q]) \in Nat
      /\ Minus(prodPtr[q], consPtr[q]) \in Nat
      /\ Minus(NextPtr(q), consPtr[q]) + rung[q] <= Minus(prodPtr[q], consPtr[q])
      /\ \A s \in SlotsOf(q) :
           /\ opPtr[s] \in Ptr
           /\ Minus(opPtr[s], consPtr[q]) <= Minus(NextPtr(q), consPtr[q])
      /\ \A s, t \in SlotsOf(q) : Age(s) < Age(t) =>
           Minus(opPtr[s], consPtr[q]) < Minus(opPtr[t], consPtr[q])
  BY <1>2, RowFacts
<1>8. Publishes(q, op.data) \/ (Unused(q) /\ op.data = 0)
  BY <1>2, <1>3 DEF Justified
<1>9. op.prod = prodPtr[q] /\ op.enabled = enabled[q]
  BY <1>2 DEF Current
<1>10. prodPtr'[q] = op.data /\ consPtr'[q] = consPtr[q] /\ enabled'[q] = enabled[q]
  BY <1>3, <1>4
<1>11. CASE Publishes(q, op.data)
  <2>1. PICK n \in Wqe : op.data = Plus(prodPtr[q], n) /\ Offset(q, prodPtr[q]) + n <= RingSize
    BY <1>11 DEF Publishes
  <2>2. n \in Nat /\ n < PtrMod /\ Minus(prodPtr[q], consPtr[q]) + n < PtrMod
        /\ Minus(prodPtr[q], consPtr[q]) + n <= RingSize
    BY <1>7, <2>1, Sizes, PtrSize DEF Offset
  <2>3. op.data \in Ptr /\ Minus(op.data, consPtr[q]) = Minus(prodPtr[q], consPtr[q]) + n
    BY <1>7, <2>1, <2>2, Advance
  <2>4. Minus(op.data, prodPtr[q]) = n
    <3>1. Minus(prodPtr[q], prodPtr[q]) = 0
      BY <1>7, MinusSelf
    <3>2. Minus(prodPtr[q], prodPtr[q]) + n < PtrMod
      BY <2>2, <3>1
    <3>3. Minus(op.data, prodPtr[q]) = Minus(prodPtr[q], prodPtr[q]) + n
      BY <1>7, <2>1, <2>2, <3>2, Advance
    <3> QED  BY <2>2, <3>1, <3>3
  <2>5. rung'[q] = rung[q] + n
    BY <1>3, <1>4, <1>9, <1>11, <2>4 DEF Publishes
  <2>6. /\ prodPtr'[q] \in Ptr /\ consPtr'[q] \in Ptr /\ rung'[q] \in Nat
        /\ NextPtr(q)' \in Ptr
        /\ Minus(NextPtr(q)', consPtr'[q]) + rung'[q] <= Minus(prodPtr'[q], consPtr'[q])
        /\ enabled'[q] => Minus(prodPtr'[q], consPtr'[q]) <= RingSize
    BY <1>6, <1>7, <1>10, <2>2, <2>3, <2>5
  <2>7. Row(q)'
    BY <1>2, <1>5, <1>6, <1>7, <1>10, <2>6, QuietRow
  <2>8. prodPtr' = [prodPtr EXCEPT ![q] = Plus(@, n)]
    BY <1>3, <2>1
  <2> QED  BY <1>2, <1>3, <1>5, <1>6, <2>2, <2>7, <2>8 DEF Same
<1>12. CASE Unused(q) /\ op.data = 0
  <2>1. NextPtr(q) = consPtr[q] /\ TakenOps(q) = {}
    BY <1>2, <1>3, <1>12, UnusedRow
  <2>2. rung'[q] = 0 /\ ~enabled[q]
    BY <1>3, <1>4, <1>9, <1>12 DEF Unused
  <2>3. Minus(0, consPtr[q]) \in Nat /\ Minus(NextPtr(q), consPtr[q]) = 0
    BY <1>7, <2>1, MinusSelf, MinusValue, PtrNumber
  <2>4. /\ prodPtr'[q] \in Ptr /\ consPtr'[q] \in Ptr /\ rung'[q] \in Nat
        /\ NextPtr(q)' \in Ptr
        /\ Minus(NextPtr(q)', consPtr'[q]) + rung'[q] <= Minus(prodPtr'[q], consPtr'[q])
        /\ ~enabled'[q]
    BY <1>6, <1>7, <1>10, <1>12, <2>2, <2>3, PtrNumber
  <2>5. Row(q)'
    BY <1>2, <1>5, <1>6, <1>7, <1>10, <2>4, QuietRow
  <2>6. prodPtr' = [prodPtr EXCEPT ![q] = 0]
    BY <1>3, <1>12
  <2> QED  BY <1>2, <1>3, <1>5, <1>6, <2>1, <2>5, <2>6 DEF Same
<1> QED  BY <1>8, <1>11, <1>12

(* A consumer pointer is performed: an unused queue is rewound.            *)
LEMMA RowRewinds ==
    ASSUME RowsInv, PerformCons
    PROVE  /\ Apart(pipe)' /\ \A r \in Queue : Row(r)' /\ TakenOps(r)' = TakenOps(r)
           /\ UNCHANGED <<prodPtr, resp, rung>>
           /\ \E q \in Queue :
               /\ TakenOps(q) = {}
               /\ consPtr' = [consPtr EXCEPT ![q] = 0]
               /\ NextPtr(q)' = 0
               /\ \A r \in Queue : r # q => NextPtr(r)' = NextPtr(r)
<1>1. pipe # <<>> /\ Head(pipe).kind = "cons" /\ pipe' = Tail(pipe)
  BY DEF PerformCons
<1>2. PICK op \in Op, q \in Queue :
        /\ op = Head(pipe) /\ q = op.queue /\ Apart(pipe')
        /\ InPipeline(q) = {op} /\ InPipeline(q)' = {}
        /\ Row(q) /\ Current(op) /\ Justified(q, op)
  BY <1>1, HeadLeaves
<1>3. Unused(q) /\ op.data = 0 /\ op.kind = "cons"
  BY <1>1, <1>2 DEF Justified
<1>4. op.enabled = FALSE
  BY <1>2, <1>3 DEF Current, Unused, Op
<1>5. /\ consPtr' = [consPtr EXCEPT ![q] = 0]
      /\ UNCHANGED <<prodPtr, enabled, opIndex, tableVars, resp, fetch, rung>>
  BY <1>2, <1>3, <1>4 DEF PerformCons
<1>6. consPtr \in [Queue -> Nat]
  BY DEF RowsInv, IInv, Typing
<1>7. /\ \A r : SlotsOf(r)' = SlotsOf(r)
      /\ \A s : Age(s)' = Age(s)
      /\ \A r \in Queue : r # q => Row(r)' /\ Same(r)
      /\ UNCHANGED <<opPtr, opCommit, opIndex>>
  <2>1. \A r \in Queue : r # q =>
               /\ prodPtr'[r] = prodPtr[r] /\ consPtr'[r] = consPtr[r]
               /\ enabled'[r] = enabled[r] /\ rung'[r] = rung[r]
    BY <1>5, <1>6
  <2> QED  BY <1>1, <1>2, <1>5, <2>1, OthersStay
<1>8. SlotsOf(q) = {} /\ rung[q] = 0 /\ ~enabled[q]
  BY <1>3 DEF Unused
<1>9. consPtr'[q] = 0 /\ prodPtr'[q] = prodPtr[q] /\ prodPtr[q] \in Ptr
  BY <1>2, <1>5, <1>6 DEF Row
<1>10. NextPtr(q)' = 0 /\ TakenOps(q)' = {}
  <2>1. NextPtr(q)' = NextOf({}, opPtr', opIndex'[q], {}, 0)
        /\ TakenOps(q)' = TakenOf({}, opPtr', opCommit', {})
    BY <1>2, <1>7, <1>8, <1>9, RowSeenNext
  <2>2. NextPtr(q)' = 0
    BY <2>1, NextNone
  <2>3. TakenOps(q)' = {}
    BY <2>1, TakenNone
  <2> QED  BY <2>2, <2>3
<1>11. TakenOps(q) = {}
  BY <1>2, <1>3, UnusedRow
<1>12. Row(q)'
  <2>1. Minus(0, 0) = 0 /\ Minus(prodPtr[q], 0) \in Nat
    BY <1>9, PtrNumber, MinusSelf, MinusValue
  <2>2. /\ prodPtr'[q] \in Ptr /\ consPtr'[q] \in Ptr /\ rung'[q] \in Nat
        /\ NextPtr(q)' \in Ptr
        /\ Minus(NextPtr(q)', consPtr'[q]) + rung'[q] <= Minus(prodPtr'[q], consPtr'[q])
        /\ ~enabled'[q]
    BY <1>5, <1>8, <1>9, <1>10, <2>1, PtrNumber
  <2>3. ~ \E s : s \in SlotsOf(q)
    BY <1>8
  <2> QED  BY <1>2, <1>7, <2>2, <2>3, QuietRow
<1>13. \A r \in Queue : Row(r)' /\ TakenOps(r)' = TakenOps(r)
  BY <1>7, <1>10, <1>11, <1>12 DEF Same
<1>14. \A r \in Queue : r # q => NextPtr(r)' = NextPtr(r)
  BY <1>7 DEF Same
<1> QED  BY <1>2, <1>5, <1>10, <1>11, <1>13, <1>14

(* A queue is disabled or opened.                                          *)
LEMMA RowEnables ==
    ASSUME RowsInv, PerformEnable
    PROVE  /\ Apart(pipe)' /\ \A r \in Queue : Row(r)' /\ Same(r)
           /\ UNCHANGED <<prodPtr, consPtr, resp, rung>>
<1>1. pipe # <<>> /\ Head(pipe).kind = "enable" /\ pipe' = Tail(pipe)
  BY DEF PerformEnable
<1>2. PICK op \in Op, q \in Queue :
        /\ op = Head(pipe) /\ q = op.queue /\ Apart(pipe')
        /\ InPipeline(q) = {op} /\ InPipeline(q)' = {}
        /\ Row(q) /\ Current(op) /\ Justified(q, op)
  BY <1>1, HeadLeaves
<1>3. /\ enabled' = [enabled EXCEPT ![q] = (op.data = 1)]
      /\ UNCHANGED <<prodPtr, consPtr, opIndex, tableVars, resp, fetch, rung>>
      /\ op.kind = "enable"
  BY <1>1, <1>2 DEF PerformEnable
<1>4. enabled \in [Queue -> BOOLEAN]
  BY DEF RowsInv, IInv, Typing
<1>5. /\ \A r : SlotsOf(r)' = SlotsOf(r)
      /\ \A s : Age(s)' = Age(s)
      /\ \A r \in Queue : r # q => Row(r)' /\ Same(r)
      /\ UNCHANGED <<opPtr, opCommit, opIndex>>
  <2>1. \A r \in Queue : r # q =>
               /\ prodPtr'[r] = prodPtr[r] /\ consPtr'[r] = consPtr[r]
               /\ enabled'[r] = enabled[r] /\ rung'[r] = rung[r]
    BY <1>3, <1>4
  <2> QED  BY <1>1, <1>2, <1>3, <2>1, OthersStay
<1>6. NextPtr(q)' = NextPtr(q) /\ TakenOps(q)' = TakenOps(q)
  <2>1. NextPtr(q)' = NextOf(SlotsOf(q), opPtr, opIndex[q], {}, consPtr[q])
        /\ TakenOps(q)' = TakenOf(SlotsOf(q), opPtr, opCommit, {})
    BY <1>2, <1>3, <1>5, RowSeenNext
  <2>2. NextPtr(q) = NextOf(SlotsOf(q), opPtr, opIndex[q], {op}, consPtr[q])
        /\ TakenOps(q) = TakenOf(SlotsOf(q), opPtr, opCommit, {op})
    BY <1>2, RowSeen
  <2>3. TakenOps(q)' = TakenOps(q)
    BY <1>3, <2>1, <2>2, TakenNone, TakenOne
  <2>4. NextPtr(q)' = NextPtr(q)
    BY <1>3, <2>1, <2>2, NextOther, NextNone
  <2> QED  BY <2>3, <2>4
<1>7. enabled'[q] => Minus(prodPtr[q], consPtr[q]) <= RingSize
  <2>1. ASSUME op.data # 0 PROVE Minus(prodPtr[q], consPtr[q]) <= RingSize
    <3>1. prodPtr[q] = 0 /\ consPtr[q] = 0
      BY <1>2, <1>3, <2>1 DEF Justified, Reopens
    <3>2. Minus(0, 0) = 0
      BY PtrNumber, MinusSelf
    <3> QED  BY <3>1, <3>2, PtrSize
  <2>2. enabled'[q] => op.data # 0
    <3>1. enabled'[q] <=> op.data = 1
      BY <1>3, <1>4
    <3> QED  BY <3>1
  <2> QED  BY <2>1, <2>2
<1>8. Row(q)'
  <2>1. /\ prodPtr[q] \in Ptr /\ consPtr[q] \in Ptr /\ rung[q] \in Nat /\ NextPtr(q) \in Ptr
        /\ Minus(NextPtr(q), consPtr[q]) + rung[q] <= Minus(prodPtr[q], consPtr[q])
        /\ \A s \in SlotsOf(q) :
             /\ opPtr[s] \in Ptr
             /\ Minus(opPtr[s], consPtr[q]) <= Minus(NextPtr(q), consPtr[q])
        /\ \A s, t \in SlotsOf(q) : Age(s) < Age(t) =>
             Minus(opPtr[s], consPtr[q]) < Minus(opPtr[t], consPtr[q])
    BY <1>2, RowFacts
  <2>2. prodPtr'[q] = prodPtr[q] /\ consPtr'[q] = consPtr[q] /\ rung'[q] = rung[q]
    BY <1>3
  <2> QED  BY <1>2, <1>5, <1>6, <1>7, <2>1, <2>2, QuietRow
<1> QED  BY <1>2, <1>3, <1>5, <1>6, <1>8 DEF Same

(* A commit is performed: the oldest dequeue of its queue is given back.   *)
LEMMA RowGivesBack ==
    ASSUME RowsInv, PerformCommit
    PROVE  /\ Apart(pipe)' /\ \A r \in Queue : Row(r)' /\ NextPtr(r)' = NextPtr(r)
           /\ UNCHANGED <<prodPtr, resp, rung>>
           /\ \E q \in Queue, d \in Ptr :
               LET o == [upto |-> d, done |-> TRUE] IN
               /\ o \in TakenOps(q)
               /\ \A p \in TakenOps(q) : Minus(d, consPtr[q]) <= Minus(p.upto, consPtr[q])
               /\ consPtr' = [consPtr EXCEPT ![q] = d]
               /\ TakenOps(q)' = TakenOps(q) \ {o}
               /\ \A r \in Queue : r # q => TakenOps(r)' = TakenOps(r)
<1>1. pipe # <<>> /\ Head(pipe).kind = "commit" /\ pipe' = Tail(pipe)
  BY DEF PerformCommit
<1>2. PICK op \in Op, q \in Queue :
        /\ op = Head(pipe) /\ q = op.queue /\ Apart(pipe')
        /\ InPipeline(q) = {op} /\ InPipeline(q)' = {}
        /\ Row(q) /\ Current(op) /\ Justified(q, op)
  BY <1>1, HeadLeaves
<1>3. /\ consPtr' = [consPtr EXCEPT ![q] = op.data]
      /\ UNCHANGED <<prodPtr, enabled, opIndex, tableVars, resp, fetch, rung>>
      /\ op.kind = "commit"
  BY <1>1, <1>2 DEF PerformCommit
<1>4. consPtr \in [Queue -> Nat]
  BY DEF RowsInv, IInv, Typing
<1>5. /\ \A r : SlotsOf(r)' = SlotsOf(r)
      /\ \A s : Age(s)' = Age(s)
      /\ \A r \in Queue : r # q => Row(r)' /\ Same(r)
      /\ UNCHANGED <<opPtr, opCommit, opIndex>>
  <2>1. \A r \in Queue : r # q =>
               /\ prodPtr'[r] = prodPtr[r] /\ consPtr'[r] = consPtr[r]
               /\ enabled'[r] = enabled[r] /\ rung'[r] = rung[r]
    BY <1>3, <1>4
  <2> QED  BY <1>1, <1>2, <1>3, <2>1, OthersStay
<1>6. PICK d \in Ptr : d = op.data
  BY <1>2, <1>3 DEF Justified
<1>7. PICK c \in Ptr : c = consPtr[q]
  BY <1>2 DEF Row
<1>8. \A s \in SlotsOf(q) : Minus(d, c) < Minus(opPtr[s], c)
  BY <1>2, <1>3, <1>6, <1>7 DEF Justified, Offset
<1>9. consPtr'[q] = d
  BY <1>3, <1>4, <1>6
<1>10. /\ prodPtr[q] \in Ptr /\ rung[q] \in Nat /\ NextPtr(q) \in Ptr
       /\ Minus(NextPtr(q), c) \in Nat /\ Minus(prodPtr[q], c) \in Nat
       /\ Minus(NextPtr(q), c) + rung[q] <= Minus(prodPtr[q], c)
       /\ enabled[q] => Minus(prodPtr[q], c) <= RingSize
       /\ \A s \in SlotsOf(q) :
            /\ opPtr[s] \in Ptr /\ Minus(opPtr[s], c) \in Nat
            /\ Minus(opPtr[s], c) <= Minus(NextPtr(q), c)
       /\ \A s, t \in SlotsOf(q) : Age(s) < Age(t) => Minus(opPtr[s], c) < Minus(opPtr[t], c)
  BY <1>2, <1>7, RowFacts
<1>11. Minus(d, c) \in Nat
  BY MinusValue, PtrNumber
<1>12. NextPtr(q)' = NextPtr(q)
  <2>1. NextPtr(q)' = NextOf(SlotsOf(q), opPtr, opIndex[q], {}, d)
    BY <1>2, <1>5, <1>9, RowSeenNext
  <2>2. NextPtr(q) = NextOf(SlotsOf(q), opPtr, opIndex[q], {op}, consPtr[q])
    BY <1>2, RowSeen
  <2>3. CASE opIndex[q] \in SlotsOf(q)
    BY <2>1, <2>2, <2>3, NextNewest
  <2>4. CASE opIndex[q] \notin SlotsOf(q)
    BY <1>3, <1>6, <2>1, <2>2, <2>4, NextNone, NextOne
  <2> QED  BY <2>3, <2>4
<1>13. Minus(d, c) <= Minus(NextPtr(q), c)
  <2>1. NextPtr(q) = NextOf(SlotsOf(q), opPtr, opIndex[q], {op}, consPtr[q])
    BY <1>2, RowSeen
  <2>2. CASE opIndex[q] \in SlotsOf(q)
    <3>1. PICK s \in SlotsOf(q) : s = opIndex[q]
      BY <2>2
    <3>2. NextPtr(q) = opPtr[s]
      BY <2>1, <2>2, <3>1, NextNewest
    <3> QED  BY <1>8, <1>10, <1>11, <3>2
  <2>3. CASE opIndex[q] \notin SlotsOf(q)
    <3>1. NextPtr(q) = d
      BY <1>3, <1>6, <2>1, <2>3, NextOne
    <3> QED  BY <1>11, <3>1
  <2> QED  BY <2>2, <2>3
<1>14. Minus(d, c) <= Minus(prodPtr[q], c)
  BY <1>10, <1>11, <1>13
<1>15. /\ Minus(NextPtr(q), d) = Minus(NextPtr(q), c) - Minus(d, c)
       /\ Minus(prodPtr[q], d) = Minus(prodPtr[q], c) - Minus(d, c)
  BY <1>10, <1>13, <1>14, Rebase
<1>16. ASSUME NEW s \in SlotsOf(q) PROVE Minus(opPtr[s], d) = Minus(opPtr[s], c) - Minus(d, c)
  <2>1. Minus(d, c) <= Minus(opPtr[s], c)
    BY <1>8, <1>10, <1>11
  <2> QED  BY <1>10, <2>1, Rebase
<1>17. Row(q)'
  <2>1. /\ prodPtr'[q] = prodPtr[q] /\ rung'[q] = rung[q] /\ enabled'[q] = enabled[q]
    BY <1>3
  <2>2. Minus(NextPtr(q), d) + rung[q] <= Minus(prodPtr[q], d)
    BY <1>10, <1>11, <1>15
  <2>3. enabled[q] => Minus(prodPtr[q], d) <= RingSize
    BY <1>10, <1>11, <1>15, PtrSize
  <2>4. \A s \in SlotsOf(q) : opPtr[s] \in Ptr /\ Minus(opPtr[s], d) <= Minus(NextPtr(q), d)
    BY <1>10, <1>11, <1>15, <1>16
  <2>5. \A s, t \in SlotsOf(q) : Age(s) < Age(t) => Minus(opPtr[s], d) < Minus(opPtr[t], d)
    BY <1>10, <1>11, <1>16
  <2> QED  BY <1>2, <1>5, <1>9, <1>10, <1>12, <2>1, <2>2, <2>3, <2>4, <2>5, QuietRow
<1> DEFINE o == [upto |-> d, done |-> TRUE]
<1>18. /\ o \in TakenOps(q)
       /\ TakenOps(q)' = TakenOps(q) \ {o}
       /\ \A p \in TakenOps(q) : Minus(d, c) <= Minus(p.upto, c)
  <2> DEFINE rest == {[upto |-> opPtr[s], done |-> opCommit[s]] : s \in SlotsOf(q)}
  <2>1. TakenOps(q)' = rest
    <3>1. TakenOps(q)' = TakenOf(SlotsOf(q), opPtr, opCommit, {})
      BY <1>2, <1>5, RowSeenNext
    <3> QED  BY <3>1, TakenNone
  <2>2. TakenOps(q) = rest \union {o}
    <3>1. TakenOps(q) = TakenOf(SlotsOf(q), opPtr, opCommit, {op})
      BY <1>2, RowSeen
    <3>2. TakenOps(q) = TakenOf(SlotsOf(q), opPtr, opCommit, {}) \union {o}
      BY <1>3, <1>6, <3>1, TakenOne
    <3> QED  BY <3>2, TakenNone
  <2>3. \A p \in rest : \E s \in SlotsOf(q) : p.upto = opPtr[s]
    OBVIOUS
  <2> HIDE DEF rest
  <2>4. \A p \in rest : Minus(d, c) <= Minus(p.upto, c) /\ p # o
    <3> SUFFICES ASSUME NEW p \in rest PROVE Minus(d, c) <= Minus(p.upto, c) /\ p # o
      OBVIOUS
    <3>1. PICK s \in SlotsOf(q) : p.upto = opPtr[s]
      BY <2>3
    <3>2. Minus(d, c) < Minus(p.upto, c) /\ Minus(p.upto, c) \in Nat
      BY <1>8, <1>10, <3>1
    <3>3. p # o
      <4>1. o.upto = d
        OBVIOUS
      <4> QED  BY <1>11, <3>2, <4>1
    <3> QED  BY <1>11, <3>2, <3>3
  <2>5. Minus(d, c) <= Minus(o.upto, c)
    BY <1>11
  <2> HIDE DEF o
  <2> QED  BY <2>1, <2>2, <2>4, <2>5
<1>19. \A r \in Queue : Row(r)' /\ NextPtr(r)' = NextPtr(r)
  BY <1>5, <1>12, <1>17 DEF Same
<1>20. \A r \in Queue : r # q => TakenOps(r)' = TakenOps(r)
  BY <1>5 DEF Same
<1>21. consPtr' = [consPtr EXCEPT ![q] = d]
  BY <1>3, <1>6
<1> HIDE DEF o
<1>22. \E p \in Queue, e \in Ptr :
          /\ [upto |-> e, done |-> TRUE] \in TakenOps(p)
          /\ \A x \in TakenOps(p) : Minus(e, consPtr[p]) <= Minus(x.upto, consPtr[p])
          /\ consPtr' = [consPtr EXCEPT ![p] = e]
          /\ TakenOps(p)' = TakenOps(p) \ {[upto |-> e, done |-> TRUE]}
          /\ \A r \in Queue : r # p => TakenOps(r)' = TakenOps(r)
  BY <1>7, <1>18, <1>20, <1>21 DEF o
<1> QED  BY <1>2, <1>3, <1>19, <1>22

-----------------------------------------------------------------------------
(* No two slots are as far from a third.                                   *)
LEMMA AfterApart ==
    ASSUME NEW f \in OpSlot, NEW s \in OpSlot, NEW t \in OpSlot, After(f, s) = After(f, t)
    PROVE  s = t
<1>1. PICK a \in Nat : a = After(f, s) /\ a < OpTableSize
  BY AfterType, TableSize
<1>2. a = IF f <= s THEN s - f ELSE s + OpTableSize - f
  BY <1>1, AfterValue
<1>3. a = IF f <= t THEN t - f ELSE t + OpTableSize - f
  BY <1>1, AfterValue
<1>4. f \in Nat /\ s \in Nat /\ t \in Nat /\ f < OpTableSize /\ s < OpTableSize /\ t < OpTableSize
  BY TableSize DEF OpSlot
<1> QED  BY <1>1, <1>2, <1>3, <1>4, TableSize

(* The table in terms of the slots of one queue: it remembers the newest,  *)
(* and no two slots have the same age.                                     *)
LEMMA SlotFacts ==
    ASSUME IInv, NEW q \in Queue
    PROVE  /\ \A s \in SlotsOf(q) : s \in OpSlot /\ opActive[s] /\ opQueue[s] = q
           /\ \A s \in SlotsOf(q) : opIndex[q] \in SlotsOf(q)
           /\ \A s, t \in SlotsOf(q) : Age(s) = Age(t) => s = t
           /\ \A s \in OpSlot : Age(s) \in Nat
<1>1. finishPtr \in OpSlot /\ opIndex[q] \in OpSlot
  BY DEF IInv, Typing
<1>2. \A s \in SlotsOf(q) : s \in OpSlot /\ opActive[s] /\ opQueue[s] = q
  BY DEF SlotsOf
<1>3. ASSUME NEW s \in SlotsOf(q) PROVE opIndex[q] \in SlotsOf(q)
  <2>1. s \in ActiveSlots
    BY <1>2 DEF ActiveSlots
  <2>2. opActive[opIndex[opQueue[s]]] /\ opQueue[opIndex[opQueue[s]]] = opQueue[s]
    BY <2>1 DEF IInv, TableIsQueue
  <2> QED  BY <1>1, <1>2, <2>2 DEF SlotsOf
<1>4. \A s : Age(s) = After(finishPtr, s)
  BY DEF Age, After
<1>5. \A s, t \in OpSlot : After(finishPtr, s) = After(finishPtr, t) => s = t
  BY <1>1, AfterApart
<1>6. \A s \in OpSlot : Age(s) \in Nat
  BY <1>1, <1>4, AfterType
<1> QED  BY <1>2, <1>3, <1>4, <1>5, <1>6

(* The oldest dequeue leaves its slot for the pipeline, as a commit.       *)
LEMMA RowCommits ==
    ASSUME RowsInv, AcceptCommit
    PROVE  /\ Apart(pipe)' /\ \A r \in Queue : Row(r)' /\ Same(r)
           /\ UNCHANGED <<prodPtr, consPtr, resp, rung>>
<1>1. /\ IInv /\ pipe \in Seq(Op) /\ Apart(pipe)
      /\ opActive \in [OpSlot -> BOOLEAN] /\ opCommit \in [OpSlot -> BOOLEAN]
      /\ opQueue \in [OpSlot -> Queue] /\ finishPtr \in OpSlot
  BY DEF RowsInv, IInv, Typing
<1>2. PICK f \in OpSlot : f = finishPtr
  BY <1>1
<1>3. PICK q \in Queue : q = opQueue[f]
  BY <1>1
<1>4. /\ opActive[f] /\ opCommit[f]
      /\ ~Hazard(q)
      /\ pipe' = Append(pipe, Read("commit", q, opPtr[f]))
      /\ opActive' = [opActive EXCEPT ![f] = FALSE]
      /\ finishPtr' = NextSlot(f)
      /\ UNCHANGED <<prodPtr, consPtr, enabled, opIndex, opCommit, opQueue, opPtr, startPtr,
                     resp, fetch, rung>>
  BY <1>2, <1>3 DEF AcceptCommit, Finishable, queueVars
<1>5. f \in SlotsOf(q)
  BY <1>3, <1>4 DEF SlotsOf
<1>6. Row(q)
  BY DEF RowsInv
<1>7. PICK d \in Ptr : d = opPtr[f]
  BY <1>5, <1>6 DEF Row
<1>8. PICK op \in Op : op = Read("commit", q, d)
  BY <1>1, PtrNumber, ReadTyped DEF IInv
<1>9. /\ op.kind = "commit" /\ op.queue = q /\ op.data = d
      /\ op.prod = prodPtr[q] /\ op.cons = consPtr[q]
      /\ op.enabled = enabled[q] /\ op.index = opIndex[q]
  BY <1>8 DEF Read
<1>10. /\ Apart(pipe')
       /\ InPipeline(q) = {} /\ InPipeline(q)' = {op}
       /\ \A r : r # q => InPipeline(r)' = InPipeline(r)
  <2>1. \A i \in DOMAIN pipe : pipe[i].queue # op.queue
    BY <1>4, <1>9 DEF Hazard
  <2>2. pipe' = Append(pipe, op)
    BY <1>4, <1>7, <1>8
  <2>3. /\ Apart(Append(pipe, op))
        /\ OpsOf(pipe, q) = {} /\ OpsOf(Append(pipe, op), q) = {op}
        /\ \A r : r # q => OpsOf(Append(pipe, op), r) = OpsOf(pipe, r)
    BY <1>1, <1>9, <2>1, OpEnters
  <2> QED  BY <2>2, <2>3, PipelineSeen
<1>11. /\ SlotsOf(q)' = SlotsOf(q) \ {f}
       /\ \A r : r # q => SlotsOf(r)' = SlotsOf(r)
  BY <1>1, <1>3, <1>4 DEF SlotsOf
<1>12. /\ \A s \in OpSlot : s # f => Age(s)' = Age(s) - 1 /\ Age(s) > 0 /\ Age(s) \in Nat
       /\ Age(f) = 0
  <2>1. \A s : Age(s) = After(f, s) /\ Age(s)' = After(NextSlot(f), s)
    BY <1>2, <1>4 DEF Age, After
  <2>2. 1 \in 1 .. OpTableSize
    BY TableSize
  <2> QED  BY <2>1, <2>2, WindowShrinks, AfterType
<1>13. \A r : \A s \in SlotsOf(r) : s \in OpSlot
  BY DEF SlotsOf
<1>14. ASSUME NEW r \in Queue, r # q PROVE Row(r)' /\ Same(r)
  <2>1. Row(r) /\ InPipeline(r)' = InPipeline(r) /\ SlotsOf(r)' = SlotsOf(r)
    BY <1>10, <1>11, <1>14 DEF RowsInv
  <2>2. f \notin SlotsOf(r)
    BY <1>3, <1>14 DEF SlotsOf
  <2>3. \A s, t \in SlotsOf(r) : Age(s)' < Age(t)' => Age(s) < Age(t)
    BY <1>12, <1>13, <2>2
  <2>4. Row(r)' /\ NextPtr(r)' = NextPtr(r)
    BY <1>4, <2>1, <2>3, RowStays
  <2>5. TakenOps(r)' = TakenOps(r)
    BY <1>4, <2>1, TakenStays
  <2> QED  BY <2>4, <2>5 DEF Same
<1>15. opIndex[q] \in SlotsOf(q)
  BY <1>1, <1>5, SlotFacts
<1>16. NextPtr(q)' = NextPtr(q)
  <2>1. NextPtr(q) = opPtr[opIndex[q]]
    BY <1>15, RowSeen, NextNewest
  <2>2. NextPtr(q)' = NextOf(SlotsOf(q)', opPtr, opIndex[q], {op}, consPtr[q])
    BY <1>4, <1>10, RowSeenNext
  <2>3. CASE opIndex[q] = f
    <3>1. opIndex[q] \notin SlotsOf(q)'
      BY <1>11, <2>3
    <3> QED  BY <1>7, <1>9, <2>1, <2>2, <2>3, <3>1, NextOne
  <2>4. CASE opIndex[q] # f
    <3>1. opIndex[q] \in SlotsOf(q)'
      BY <1>11, <1>15, <2>4
    <3> QED  BY <2>1, <2>2, <3>1, NextNewest
  <2> QED  BY <2>3, <2>4
<1>17. TakenOps(q)' = TakenOps(q)
  <2> DEFINE all == {[upto |-> opPtr[s], done |-> opCommit[s]] : s \in SlotsOf(q)}
             rest == {[upto |-> opPtr[s], done |-> opCommit[s]] : s \in SlotsOf(q) \ {f}}
             o == [upto |-> d, done |-> TRUE]
  <2>1. TakenOps(q) = all
    <3>1. TakenOps(q) = TakenOf(SlotsOf(q), opPtr, opCommit, {})
      BY <1>10, RowSeen
    <3> QED  BY <3>1, TakenNone
  <2>2. TakenOps(q)' = rest \union {o}
    <3>1. TakenOps(q)' = TakenOf(SlotsOf(q) \ {f}, opPtr, opCommit, {op})
      BY <1>4, <1>10, <1>11, RowSeenNext
    <3>2. TakenOps(q)' = TakenOf(SlotsOf(q) \ {f}, opPtr, opCommit, {}) \union {o}
      BY <1>9, <3>1, TakenOne
    <3> QED  BY <3>2, TakenNone
  <2>3. [upto |-> opPtr[f], done |-> opCommit[f]] = o
    <3>1. opCommit[f] = TRUE
      BY <1>1, <1>4
    <3> QED  BY <1>7, <3>1
  <2>4. all = rest \union {o}
    BY <1>5, <2>3
  <2> QED  BY <2>1, <2>2, <2>4
<1>18. Row(q)'
  <2>1. /\ prodPtr[q] \in Ptr /\ consPtr[q] \in Ptr /\ rung[q] \in Nat /\ NextPtr(q) \in Ptr
        /\ Minus(NextPtr(q), consPtr[q]) + rung[q] <= Minus(prodPtr[q], consPtr[q])
        /\ enabled[q] => Minus(prodPtr[q], consPtr[q]) <= RingSize
        /\ \A s \in SlotsOf(q) :
            /\ opPtr[s] \in Ptr
            /\ Minus(opPtr[s], consPtr[q]) <= Minus(NextPtr(q), consPtr[q])
        /\ \A s, t \in SlotsOf(q) : Age(s) < Age(t) =>
            Minus(opPtr[s], consPtr[q]) < Minus(opPtr[t], consPtr[q])
    BY <1>6, RowFacts
  <2>2. \A s, t \in SlotsOf(q)' : Age(s)' < Age(t)' => Age(s) < Age(t)
    BY <1>11, <1>12, <1>13
  <2>3. \A s \in SlotsOf(q)' : s \in SlotsOf(q) /\ Minus(d, consPtr[q]) < Minus(opPtr[s], consPtr[q])
    <3> SUFFICES ASSUME NEW s \in SlotsOf(q)'
                 PROVE  s \in SlotsOf(q) /\ Minus(d, consPtr[q]) < Minus(opPtr[s], consPtr[q])
      OBVIOUS
    <3>1. s \in SlotsOf(q) /\ s # f
      BY <1>11
    <3>2. Age(f) < Age(s)
      BY <1>12, <1>13, <3>1
    <3>3. Minus(opPtr[f], consPtr[q]) < Minus(opPtr[s], consPtr[q])
      BY <1>5, <2>1, <3>1, <3>2
    <3> QED  BY <1>7, <3>1, <3>3
  <2>4. Current(op)'
    BY <1>4, <1>9 DEF Current
  <2>5. Justified(q, op)'
    BY <1>4, <1>9, <2>3 DEF Justified, Offset
  <2>6. \A o \in InPipeline(q)' : Current(o)' /\ Justified(q, o)'
    BY <1>10, <2>4, <2>5
  <2>7. /\ prodPtr'[q] \in Ptr /\ consPtr'[q] \in Ptr /\ rung'[q] \in Nat
        /\ NextPtr(q)' \in Ptr
        /\ Minus(NextPtr(q)', consPtr'[q]) + rung'[q] <= Minus(prodPtr'[q], consPtr'[q])
        /\ enabled'[q] => Minus(prodPtr'[q], consPtr'[q]) <= RingSize
    BY <1>4, <1>16, <2>1
  <2>8. /\ \A s \in SlotsOf(q)' :
             opPtr'[s] \in Ptr
             /\ Minus(opPtr'[s], consPtr'[q]) <= Minus(NextPtr(q)', consPtr'[q])
        /\ \A s, t \in SlotsOf(q)' : Age(s)' < Age(t)' =>
             Minus(opPtr'[s], consPtr'[q]) < Minus(opPtr'[t], consPtr'[q])
    BY <1>4, <1>16, <2>1, <2>2, <2>3
  <2> QED  BY <2>6, <2>7, <2>8 DEF Row, Offset
<1> QED  BY <1>4, <1>10, <1>14, <1>16, <1>17, <1>18 DEF Same

(* A dequeue is performed: it is refused, or handed out.                   *)
HandsOut(q, n) ==
    /\ n <= Minus(prodPtr[q], NextPtr(q))
    /\ resp'.status = "ok"
    /\ NextPtr(q)' = Plus(NextPtr(q), n)
    /\ TakenOps(q)' = TakenOps(q) \union {[upto |-> Plus(NextPtr(q), n), done |-> FALSE]}
    /\ \A r \in Queue : r # q => Same(r)
Refuses(q, n) ==
    /\ resp'.status # "ok"
    /\ \A r \in Queue : Same(r)

(* What a granted dequeue does to the rows.                                *)
LEMMA RowGrants ==
    ASSUME RowsInv, NEW op \in Op, NEW q \in Queue, q = op.queue, op.data \in Wqe,
           Apart(pipe'), InPipeline(q) = {op}, InPipeline(q)' = {}, op.kind = "req",
           \A r : r # q => InPipeline(r)' = InPipeline(r),
           Justified(q, op), ~opActive[startPtr],
           NEW p \in Ptr, p = Plus(NextPtr(q), op.data),
           opIndex' = [opIndex EXCEPT ![q] = startPtr],
           opActive' = [opActive EXCEPT ![startPtr] = TRUE],
           opCommit' = [opCommit EXCEPT ![startPtr] = FALSE],
           opQueue' = [opQueue EXCEPT ![startPtr] = q],
           opPtr' = [opPtr EXCEPT ![startPtr] = p],
           UNCHANGED <<prodPtr, consPtr, enabled, finishPtr, rung>>
    PROVE  /\ \A r \in Queue : Row(r)'
           /\ \A r \in Queue : r # q => Same(r)
           /\ op.data <= Minus(prodPtr[q], NextPtr(q))
           /\ NextPtr(q)' = p
           /\ TakenOps(q)' = TakenOps(q) \union {[upto |-> p, done |-> FALSE]}
<1>1. /\ IInv /\ Row(q)
      /\ opActive \in [OpSlot -> BOOLEAN] /\ opCommit \in [OpSlot -> BOOLEAN]
      /\ opQueue \in [OpSlot -> Queue] /\ opPtr \in [OpSlot -> Nat]
      /\ opIndex \in [Queue -> OpSlot] /\ startPtr \in OpSlot /\ finishPtr \in OpSlot
  BY DEF RowsInv, IInv, Typing
<1>2. PICK st \in OpSlot : st = startPtr
  BY <1>1
<1>3. PICK n \in Nat \ {0} : n = op.data
  BY Sizes
<1>4. /\ SlotsOf(q)' = SlotsOf(q) \union {st}
      /\ \A r \in Queue : r # q => SlotsOf(r)' = SlotsOf(r)
      /\ \A r \in Queue : st \notin SlotsOf(r)
  BY <1>1, <1>2 DEF SlotsOf
<1>5. /\ opIndex'[q] = st /\ \A r \in Queue : r # q => opIndex'[r] = opIndex[r]
      /\ opPtr'[st] = p /\ \A s \in OpSlot : s # st => opPtr'[s] = opPtr[s]
      /\ opCommit'[st] = FALSE /\ \A s \in OpSlot : s # st => opCommit'[s] = opCommit[s]
  BY <1>1, <1>2
<1>6. \A s : Age(s)' = Age(s)
  BY DEF Age
<1>7. \A r \in Queue : \A s \in SlotsOf(r) : s \in OpSlot /\ s # st /\ Age(s) < Age(st)
  <2> SUFFICES ASSUME NEW r \in Queue, NEW s \in SlotsOf(r)
               PROVE  s \in OpSlot /\ s # st /\ Age(s) < Age(st)
    OBVIOUS
  <2>1. s \in OpSlot /\ opActive[s]
    BY DEF SlotsOf
  <2>2. PICK k \in Nat : k = Cardinality(Slots(opActive))
    BY SlotsCounted
  <2>3. QueueOf(opActive, opQueue, opIndex, startPtr, finishPtr)
    BY <1>1, SameTable DEF IInv
  <2>4. After(finishPtr, s) < k /\ ~(After(finishPtr, st) < k)
    BY <1>2, <2>1, <2>2, <2>3 DEF QueueOf
  <2>5. After(finishPtr, s) \in Nat /\ After(finishPtr, st) \in Nat
    BY <1>1, <2>1, AfterType
  <2>6. Age(s) = After(finishPtr, s) /\ Age(st) = After(finishPtr, st)
    BY DEF Age, After
  <2> QED  BY <1>2, <2>1, <2>2, <2>4, <2>5, <2>6
<1>8. ASSUME NEW r \in Queue, r # q PROVE Row(r)' /\ Same(r)
  <2>1. Row(r) /\ InPipeline(r)' = InPipeline(r) /\ SlotsOf(r)' = SlotsOf(r)
    BY <1>4, <1>8 DEF RowsInv
  <2>2. \A s \in SlotsOf(r) : opPtr'[s] = opPtr[s] /\ opCommit'[s] = opCommit[s]
    BY <1>5, <1>7
  <2>3. opIndex'[r] = opIndex[r]
    BY <1>5, <1>8
  <2>4. Row(r)' /\ NextPtr(r)' = NextPtr(r)
    BY <1>6, <2>1, <2>2, <2>3, RowStays
  <2>5. TakenOps(r)' = TakenOps(r)
    BY <2>1, <2>2, TakenStays
  <2> QED  BY <2>4, <2>5 DEF Same
<1>9. /\ prodPtr[q] \in Ptr /\ consPtr[q] \in Ptr /\ rung[q] \in Nat /\ NextPtr(q) \in Ptr
      /\ Minus(NextPtr(q), consPtr[q]) \in Nat
      /\ Minus(prodPtr[q], consPtr[q]) \in Nat
      /\ Minus(prodPtr[q], consPtr[q]) < PtrMod
      /\ enabled[q] => Minus(prodPtr[q], consPtr[q]) <= RingSize
      /\ \A s \in SlotsOf(q) :
           /\ opPtr[s] \in Ptr
           /\ Minus(opPtr[s], consPtr[q]) \in Nat
           /\ Minus(opPtr[s], consPtr[q]) <= Minus(NextPtr(q), consPtr[q])
      /\ \A s, t \in SlotsOf(q) : Age(s) < Age(t) =>
           Minus(opPtr[s], consPtr[q]) < Minus(opPtr[t], consPtr[q])
  BY <1>1, RowFacts
<1>10. Minus(NextPtr(q), consPtr[q]) + rung[q] + n <= Minus(prodPtr[q], consPtr[q])
  BY <1>3 DEF Justified, Offset
<1>11. Minus(p, consPtr[q]) = Minus(NextPtr(q), consPtr[q]) + n
  <2>1. Minus(NextPtr(q), consPtr[q]) + n < PtrMod
    BY <1>9, <1>10, PtrSize
  <2> QED  BY <1>3, <1>9, <2>1, Advance
<1>12. op.data <= Minus(prodPtr[q], NextPtr(q))
  <2>1. Minus(NextPtr(q), consPtr[q]) <= Minus(prodPtr[q], consPtr[q])
    BY <1>9, <1>10
  <2>2. Minus(prodPtr[q], NextPtr(q)) =
          Minus(prodPtr[q], consPtr[q]) - Minus(NextPtr(q), consPtr[q])
    BY <1>9, <2>1, Rebase
  <2> QED  BY <1>3, <1>9, <1>10, <2>2
<1>13. NextPtr(q)' = p
  <2>1. PICK ptr : ptr = opPtr'
    OBVIOUS
  <2>2. NextPtr(q)' = NextOf(SlotsOf(q) \union {st}, ptr, st, {}, consPtr[q])
    BY <1>4, <1>5, <2>1, RowSeenNext
  <2>3. st \in SlotsOf(q) \union {st}
    OBVIOUS
  <2>4. NextPtr(q)' = ptr[st]
    BY <2>2, <2>3, NextNewest
  <2> QED  BY <1>5, <2>1, <2>4
<1>14. TakenOps(q)' = TakenOps(q) \union {[upto |-> p, done |-> FALSE]}
  <2>1. TakenOps(q) = {[upto |-> opPtr[s], done |-> opCommit[s]] : s \in SlotsOf(q)}
    <3>1. TakenOps(q) = TakenOf(SlotsOf(q), opPtr, opCommit, {op})
      BY RowSeen
    <3>2. TakenOps(q) = TakenOf(SlotsOf(q), opPtr, opCommit, {})
      BY <3>1, TakenOne
    <3> QED  BY <3>2, TakenNone
  <2>2. PICK ptr, commit : ptr = opPtr' /\ commit = opCommit'
    OBVIOUS
  <2>3. TakenOps(q)' = {[upto |-> ptr[s], done |-> commit[s]] : s \in SlotsOf(q) \union {st}}
    <3>1. TakenOps(q)' = TakenOf(SlotsOf(q) \union {st}, ptr, commit, {})
      BY <1>4, <2>2, RowSeenNext
    <3> QED  BY <3>1, TakenNone
  <2>4. /\ ptr[st] = p /\ commit[st] = FALSE
        /\ \A s \in SlotsOf(q) : ptr[s] = opPtr[s] /\ commit[s] = opCommit[s]
    BY <1>5, <1>7, <2>2
  <2>5. {[upto |-> ptr[s], done |-> commit[s]] : s \in SlotsOf(q) \union {st}}
          = {[upto |-> ptr[s], done |-> commit[s]] : s \in SlotsOf(q)}
              \union {[upto |-> ptr[st], done |-> commit[st]]}
    OBVIOUS
  <2>6. {[upto |-> ptr[s], done |-> commit[s]] : s \in SlotsOf(q)}
          = {[upto |-> opPtr[s], done |-> opCommit[s]] : s \in SlotsOf(q)}
    BY <2>4
  <2>7. [upto |-> ptr[st], done |-> commit[st]] = [upto |-> p, done |-> FALSE]
    BY <2>4
  <2> QED  BY <2>1, <2>3, <2>5, <2>6, <2>7
<1>15. Row(q)'
  <2>1. Minus(p, consPtr[q]) + rung[q] <= Minus(prodPtr[q], consPtr[q])
    BY <1>9, <1>10, <1>11
  <2>2. \A s \in SlotsOf(q)' :
          opPtr'[s] \in Ptr /\ Minus(opPtr'[s], consPtr[q]) <= Minus(p, consPtr[q])
    <3> SUFFICES ASSUME NEW s \in SlotsOf(q)'
                 PROVE  opPtr'[s] \in Ptr /\ Minus(opPtr'[s], consPtr[q]) <= Minus(p, consPtr[q])
      OBVIOUS
    <3>1. CASE s = st
      BY <1>5, <1>9, <1>11, <3>1
    <3>2. CASE s # st
      <4>1. s \in SlotsOf(q) /\ opPtr'[s] = opPtr[s]
        BY <1>4, <1>5, <1>7, <3>2
      <4> QED  BY <1>9, <1>11, <4>1
    <3> QED  BY <3>1, <3>2
  <2>3. \A s, t \in SlotsOf(q)' : Age(s) < Age(t) =>
          Minus(opPtr'[s], consPtr[q]) < Minus(opPtr'[t], consPtr[q])
    <3> SUFFICES ASSUME NEW s \in SlotsOf(q)', NEW t \in SlotsOf(q)', Age(s) < Age(t)
                 PROVE  Minus(opPtr'[s], consPtr[q]) < Minus(opPtr'[t], consPtr[q])
      OBVIOUS
    <3>1. \A u \in SlotsOf(q)' : u = st \/ (u \in SlotsOf(q) /\ opPtr'[u] = opPtr[u])
      BY <1>4, <1>5, <1>7
    <3>2. CASE t = st
      <4>1. s \in SlotsOf(q) /\ opPtr'[s] = opPtr[s]
        BY <3>1, <3>2, <1>1, <1>2, SlotFacts
      <4> QED  BY <1>5, <1>9, <1>11, <3>2, <4>1
    <3>3. CASE t # st
      <4>1. t \in SlotsOf(q) /\ opPtr'[t] = opPtr[t] /\ Age(t) < Age(st)
        BY <1>7, <3>1, <3>3
      <4>2. s # st
        BY <1>1, <1>7, <4>1, SlotFacts
      <4> QED  BY <1>9, <3>1, <4>1, <4>2
    <3> QED  BY <3>2, <3>3
  <2>4. /\ prodPtr'[q] \in Ptr /\ consPtr'[q] \in Ptr /\ rung'[q] \in Nat
        /\ NextPtr(q)' \in Ptr
        /\ Minus(NextPtr(q)', consPtr'[q]) + rung'[q] <= Minus(prodPtr'[q], consPtr'[q])
        /\ enabled'[q] => Minus(prodPtr'[q], consPtr'[q]) <= RingSize
    BY <1>9, <1>13, <2>1
  <2>5. /\ \A s \in SlotsOf(q)' :
             opPtr'[s] \in Ptr
             /\ Minus(opPtr'[s], consPtr'[q]) <= Minus(NextPtr(q)', consPtr'[q])
        /\ \A s, t \in SlotsOf(q)' : Age(s)' < Age(t)' =>
             Minus(opPtr'[s], consPtr'[q]) < Minus(opPtr'[t], consPtr'[q])
    BY <1>6, <1>13, <2>2, <2>3
  <2> QED  BY <2>4, <2>5 DEF Row, Offset
<1> QED  BY <1>8, <1>12, <1>13, <1>14, <1>15

(* The request performed, granted or not.                                  *)
LEMMA RowAnswers ==
    ASSUME RowsInv, PerformReq
    PROVE  /\ Apart(pipe)' /\ \A r \in Queue : Row(r)'
           /\ UNCHANGED <<prodPtr, consPtr, rung>>
           /\ resp = None /\ resp' # None
           /\ \E q \in Queue, n \in Wqe :
               /\ resp'.queue = q /\ resp'.ptr = NextPtr(q) /\ resp'.wqe = n
               /\ NextPtr(q) \in Ptr
               /\ HandsOut(q, n) \/ Refuses(q, n)
<1>1. pipe # <<>> /\ Head(pipe).kind = "req" /\ pipe' = Tail(pipe)
      /\ UNCHANGED <<prodPtr, consPtr, enabled, finishPtr, fetch, rung>>
  BY DEF PerformReq
<1>2. PICK op \in Op, q \in Queue :
        /\ op = Head(pipe) /\ q = op.queue /\ Apart(pipe')
        /\ InPipeline(q) = {op} /\ InPipeline(q)' = {}
        /\ \A r : r # q => InPipeline(r)' = InPipeline(r)
        /\ Row(q) /\ Current(op) /\ Justified(q, op)
  BY <1>1, HeadLeaves
<1>3. op.kind = "req" /\ op.data \in Wqe
  BY <1>1, <1>2 DEF Justified
<1>4. IInv /\ Typing /\ pipe \in Seq(Op) /\ OneRequest(pipe) /\ (HasRequest(pipe) => Idle)
  BY DEF RowsInv, IInv, RequestFits, Typing
<1>5. resp = None /\ ~opActive[startPtr]
  <2>1. HasRequest(pipe)
    BY <1>1, <1>4, OldestLeaves
  <2> QED  BY <1>4, <2>1 DEF Idle
<1>6. NextPtr(q) \in Ptr
  BY <1>2 DEF Row
<1>7. ActiveConsPtr(op) = NextPtr(q)
  <2>1. op.index = opIndex[q] /\ op.cons = consPtr[q] /\ op.index \in OpSlot
    BY <1>2 DEF Current, Op
  <2>2. Active(op) <=> opIndex[q] \in SlotsOf(q)
    BY <1>2, <2>1 DEF Active, SlotsOf
  <2>3. NextPtr(q) = NextOf(SlotsOf(q), opPtr, opIndex[q], {op}, consPtr[q])
    BY <1>2, RowSeen
  <2>4. CASE opIndex[q] \in SlotsOf(q)
    BY <2>1, <2>2, <2>3, <2>4, NextNewest DEF ActiveConsPtr
  <2>5. CASE opIndex[q] \notin SlotsOf(q)
    BY <1>3, <2>1, <2>2, <2>3, <2>5, NextOne DEF ActiveConsPtr
  <2> QED  BY <2>4, <2>5
<1>8. PICK p \in Nat : p = Plus(NextPtr(q), op.data)
  <2>1. op.data \in Nat /\ NextPtr(q) \in Nat /\ NextPtr(q) + op.data \in Nat
    BY <1>3, <1>6, Sizes, PtrNumber
  <2>2. (NextPtr(q) + op.data) % PtrMod \in 0 .. PtrMod - 1
    BY <2>1, PtrSize, ModType
  <2> QED  BY <2>2, PtrSize DEF Plus
<1>9. p \in Ptr
  <2>1. op.data \in Nat /\ NextPtr(q) \in Nat /\ NextPtr(q) + op.data \in Nat
    BY <1>3, <1>6, Sizes, PtrNumber
  <2>2. (NextPtr(q) + op.data) % PtrMod \in 0 .. PtrMod - 1
    BY <2>1, PtrSize, ModType
  <2> QED  BY <1>8, <2>2 DEF Plus, Ptr
<1>10. PICK status \in {"error", "empty", "ok"} :
        /\ resp' = [queue |-> q, ptr |-> NextPtr(q), slot |-> startPtr,
                    wqe |-> op.data, status |-> status]
        /\ IF status = "ok"
             THEN /\ opIndex' = [opIndex EXCEPT ![q] = startPtr]
                  /\ opActive' = [opActive EXCEPT ![startPtr] = TRUE]
                  /\ opCommit' = [opCommit EXCEPT ![startPtr] = FALSE]
                  /\ opQueue' = [opQueue EXCEPT ![startPtr] = q]
                  /\ opPtr' = [opPtr EXCEPT ![startPtr] = p]
                  /\ startPtr' = NextSlot(startPtr)
             ELSE UNCHANGED <<opIndex, opActive, opCommit, opQueue, opPtr, startPtr>>
  BY <1>2, <1>7, <1>8 DEF PerformReq, SlotToRemember
<1>11. /\ resp'.queue = q /\ resp'.ptr = NextPtr(q) /\ resp'.wqe = op.data
       /\ resp'.status = status /\ resp' # None
  <2>1. q \in Queue /\ NextPtr(q) \in Nat /\ startPtr \in Nat /\ op.data \in Nat
    <3>1. startPtr \in OpSlot
      BY <1>4 DEF Typing
    <3> QED  BY <1>3, <1>6, <3>1, Sizes, PtrNumber, TableSize DEF OpSlot
  <2>2. resp' \in [queue : Queue, ptr : Nat, slot : Nat, wqe : Nat,
                   status : {"ok", "empty", "error"}]
    BY <1>10, <2>1
  <2> QED  BY <1>10, <2>2, NoneAssumption
<1>12. CASE status = "ok"
  <2>1. /\ opIndex' = [opIndex EXCEPT ![q] = startPtr]
        /\ opActive' = [opActive EXCEPT ![startPtr] = TRUE]
        /\ opCommit' = [opCommit EXCEPT ![startPtr] = FALSE]
        /\ opQueue' = [opQueue EXCEPT ![startPtr] = q]
        /\ opPtr' = [opPtr EXCEPT ![startPtr] = p]
    BY <1>10, <1>12
  <2>2. /\ \A r \in Queue : Row(r)'
        /\ \A r \in Queue : r # q => Same(r)
        /\ op.data <= Minus(prodPtr[q], NextPtr(q))
        /\ NextPtr(q)' = p
        /\ TakenOps(q)' = TakenOps(q) \union {[upto |-> p, done |-> FALSE]}
    BY <1>1, <1>2, <1>3, <1>5, <1>8, <1>9, <2>1, RowGrants
  <2>3. HandsOut(q, op.data)
    BY <1>8, <1>11, <1>12, <2>2 DEF HandsOut
  <2> QED  BY <1>1, <1>2, <1>3, <1>5, <1>6, <1>11, <2>2, <2>3
<1>13. CASE status # "ok"
  <2>1. UNCHANGED <<opIndex, opActive, opCommit, opQueue, opPtr, startPtr>>
    BY <1>10, <1>13
  <2>2. \A r \in Queue : r # q =>
               /\ prodPtr'[r] = prodPtr[r] /\ consPtr'[r] = consPtr[r]
               /\ enabled'[r] = enabled[r] /\ rung'[r] = rung[r]
    BY <1>1
  <2>3. UNCHANGED <<opIndex, tableVars>>
    BY <1>1, <2>1 DEF tableVars
  <2>4. /\ \A r : SlotsOf(r)' = SlotsOf(r)
        /\ \A s : Age(s)' = Age(s)
        /\ \A r \in Queue : r # q => Row(r)' /\ Same(r)
    BY <1>1, <1>2, <2>2, <2>3, OthersStay
  <2>5. NextPtr(q)' = NextPtr(q) /\ TakenOps(q)' = TakenOps(q)
    <3>1. NextPtr(q)' = NextOf(SlotsOf(q), opPtr, opIndex[q], {}, consPtr[q])
          /\ TakenOps(q)' = TakenOf(SlotsOf(q), opPtr, opCommit, {})
      BY <1>1, <1>2, <2>1, <2>4, RowSeenNext
    <3>2. NextPtr(q) = NextOf(SlotsOf(q), opPtr, opIndex[q], {op}, consPtr[q])
          /\ TakenOps(q) = TakenOf(SlotsOf(q), opPtr, opCommit, {op})
      BY <1>2, RowSeen
    <3>3. TakenOps(q)' = TakenOps(q)
      BY <1>3, <3>1, <3>2, TakenOne
    <3>4. NextPtr(q)' = NextPtr(q)
      BY <1>3, <3>1, <3>2, NextOther
    <3> QED  BY <3>3, <3>4
  <2>6. Row(q)'
    <3>1. /\ prodPtr[q] \in Ptr /\ consPtr[q] \in Ptr /\ rung[q] \in Nat /\ NextPtr(q) \in Ptr
          /\ Minus(NextPtr(q), consPtr[q]) + rung[q] <= Minus(prodPtr[q], consPtr[q])
          /\ enabled[q] => Minus(prodPtr[q], consPtr[q]) <= RingSize
          /\ \A s \in SlotsOf(q) :
               /\ opPtr[s] \in Ptr
               /\ Minus(opPtr[s], consPtr[q]) <= Minus(NextPtr(q), consPtr[q])
          /\ \A s, t \in SlotsOf(q) : Age(s) < Age(t) =>
               Minus(opPtr[s], consPtr[q]) < Minus(opPtr[t], consPtr[q])
      BY <1>2, RowFacts
    <3>2. prodPtr'[q] = prodPtr[q] /\ consPtr'[q] = consPtr[q] /\ rung'[q] = rung[q]
          /\ enabled'[q] = enabled[q]
      BY <1>1
    <3> QED  BY <1>2, <2>1, <2>4, <2>5, <3>1, <3>2, QuietRow
  <2>7. Refuses(q, op.data)
    BY <1>11, <1>13, <2>4, <2>5 DEF Refuses, Same
  <2>8. \A r \in Queue : Row(r)'
    BY <2>4, <2>6
  <2> QED  BY <1>1, <1>2, <1>3, <1>5, <1>6, <1>11, <2>7, <2>8
<1> QED  BY <1>12, <1>13

(* desc_fetch takes the answer: the rows stay.                             *)
LEMMA RowCollects ==
    ASSUME RowsInv, TakeResp
    PROVE  /\ Apart(pipe)' /\ \A r \in Queue : Row(r)' /\ Same(r)
           /\ UNCHANGED <<prodPtr, consPtr, rung>> /\ resp # None /\ resp' = None
<1>1. /\ UNCHANGED <<prodPtr, consPtr, enabled, opIndex, opActive, opCommit, opQueue, opPtr,
                     startPtr, finishPtr, pipe, rung>>
      /\ resp # None /\ resp' = None
  BY DEF TakeResp, queueVars, tableVars
<1>2. Apart(pipe)'
  BY <1>1 DEF RowsInv
<1>3. ASSUME NEW r \in Queue PROVE Row(r)' /\ Same(r)
  <2>1. Row(r) /\ InPipeline(r)' = InPipeline(r) /\ SlotsOf(r)' = SlotsOf(r)
    BY <1>1 DEF RowsInv, InPipeline, SlotsOf
  <2>2. \A s : Age(s)' = Age(s)
    BY <1>1 DEF Age
  <2>3. Row(r)' /\ NextPtr(r)' = NextPtr(r)
    BY <1>1, <2>1, <2>2, RowStays
  <2>4. TakenOps(r)' = TakenOps(r)
    BY <1>1, <2>1, TakenStays
  <2> QED  BY <2>3, <2>4 DEF Same
<1> QED  BY <1>1, <1>2, <1>3

(* A dequeue of queue q that is to be marked as read is.                   *)
MarksRead(q, u) ==
    /\ [upto |-> u, done |-> FALSE] \in TakenOps(q)
    /\ TakenOps(q)' = (TakenOps(q) \ {[upto |-> u, done |-> FALSE]})
                        \union {[upto |-> u, done |-> TRUE]}
    /\ \A r \in Queue : r # q => TakenOps(r)' = TakenOps(r)

(* desc_fetch has read the first descriptors of a dequeue.                 *)
LEMMA RowReads ==
    ASSUME RowsInv, RecordCommit
    PROVE  /\ Apart(pipe)' /\ \A r \in Queue : Row(r)' /\ NextPtr(r)' = NextPtr(r)
           /\ UNCHANGED <<prodPtr, consPtr, resp, rung>>
           /\ \/ \A r \in Queue : TakenOps(r)' = TakenOps(r)
              \/ \E q \in Queue, u \in Ptr : MarksRead(q, u)
<1>1. /\ IInv /\ opCommit \in [OpSlot -> BOOLEAN] /\ opQueue \in [OpSlot -> Queue]
      /\ opActive \in [OpSlot -> BOOLEAN]
      /\ fetch \in Seq(Entry) /\ fetch # <<>>
  BY DEF RowsInv, IInv, Typing, RecordCommit
<1>2. PICK s \in OpSlot : s = Head(fetch).slot
  <2>1. Head(fetch) \in Entry
    BY <1>1, HeadTailProperties
  <2> QED  BY <2>1 DEF Entry
<1>3. /\ opCommit' = [opCommit EXCEPT ![s] = TRUE]
      /\ UNCHANGED <<prodPtr, consPtr, enabled, opIndex, opActive, opQueue, opPtr, startPtr,
                     finishPtr, pipe, resp, rung>>
  BY <1>2 DEF RecordCommit, queueVars
<1>4. Apart(pipe)'
  BY <1>3 DEF RowsInv
<1>5. \A r : InPipeline(r)' = InPipeline(r) /\ SlotsOf(r)' = SlotsOf(r)
  BY <1>3 DEF InPipeline, SlotsOf
<1>6. ASSUME NEW r \in Queue PROVE Row(r)' /\ NextPtr(r)' = NextPtr(r)
  <2>1. Row(r)
    BY DEF RowsInv
  <2>2. \A t : Age(t)' = Age(t)
    BY <1>3 DEF Age
  <2> QED  BY <1>3, <1>5, <2>1, <2>2, RowStays
<1>7. \A t \in OpSlot : t # s => opCommit'[t] = opCommit[t]
  BY <1>1, <1>3
<1>8. ASSUME NEW r \in Queue, s \notin SlotsOf(r) PROVE TakenOps(r)' = TakenOps(r)
  <2>1. \A t \in SlotsOf(r) : opPtr'[t] = opPtr[t] /\ opCommit'[t] = opCommit[t]
    BY <1>3, <1>7, <1>8 DEF SlotsOf
  <2> QED  BY <1>5, <2>1, TakenStays
<1>9. CASE ~opActive[s]
  <2>1. \A r \in Queue : s \notin SlotsOf(r)
    BY <1>9 DEF SlotsOf
  <2> QED  BY <1>3, <1>4, <1>6, <1>8, <2>1
<1>10. CASE opActive[s] /\ opCommit[s]
  <2>1. opCommit' = opCommit
    BY <1>1, <1>3, <1>10
  <2>2. \A r \in Queue : TakenOps(r)' = TakenOps(r)
    BY <1>3, <1>5, <2>1, TakenStays
  <2> QED  BY <1>3, <1>4, <1>6, <2>2
<1>11. CASE opActive[s] /\ ~opCommit[s]
  <2>1. PICK q \in Queue : q = opQueue[s]
    BY <1>1
  <2>2. s \in SlotsOf(q) /\ \A r \in Queue : r # q => s \notin SlotsOf(r)
    BY <1>11, <2>1 DEF SlotsOf
  <2>3. Row(q)
    BY DEF RowsInv
  <2>4. PICK u \in Ptr : u = opPtr[s]
    BY <2>2, <2>3 DEF Row
  <2>5. opCommit[s] = FALSE /\ opCommit'[s] = TRUE
    BY <1>1, <1>3, <1>11
  <2>6. \A t \in SlotsOf(q) : t # s => opPtr[t] # u /\ opCommit'[t] = opCommit[t]
    <3> SUFFICES ASSUME NEW t \in SlotsOf(q), t # s PROVE opPtr[t] # u /\ opCommit'[t] = opCommit[t]
      OBVIOUS
    <3>1. t \in OpSlot /\ Age(t) # Age(s) /\ Age(t) \in Nat /\ Age(s) \in Nat
      BY <1>1, <2>2, SlotFacts
    <3>2. Age(t) < Age(s) \/ Age(s) < Age(t)
      BY <3>1
    <3>3. \/ Minus(opPtr[t], consPtr[q]) < Minus(opPtr[s], consPtr[q])
          \/ Minus(opPtr[s], consPtr[q]) < Minus(opPtr[t], consPtr[q])
      BY <2>2, <2>3, <3>2, RowFacts
    <3>4. Minus(opPtr[t], consPtr[q]) \in Nat /\ Minus(opPtr[s], consPtr[q]) \in Nat
      BY <2>2, <2>3, RowFacts
    <3>5. opPtr[t] # opPtr[s]
      BY <3>3, <3>4
    <3> QED  BY <1>7, <2>4, <3>1, <3>5
  <2> DEFINE rest == {[upto |-> opPtr[t], done |-> opCommit[t]] : t \in SlotsOf(q) \ {s}}
             leaving == {[upto |-> op.data, done |-> TRUE] :
                           op \in {o \in InPipeline(q) : o.kind = "commit"}}
             before == [upto |-> u, done |-> FALSE]
             after == [upto |-> u, done |-> TRUE]
  <2>7. TakenOps(q) = (rest \union leaving) \union {before}
    <3>1. {[upto |-> opPtr[t], done |-> opCommit[t]] : t \in SlotsOf(q)} = rest \union {before}
      BY <2>2, <2>4, <2>5
    <3>2. TakenOps(q) = {[upto |-> opPtr[t], done |-> opCommit[t]] : t \in SlotsOf(q)}
                          \union leaving
      BY RowSeen DEF TakenOf
    <3> HIDE DEF rest, leaving, before
    <3> QED  BY <3>1, <3>2
  <2>8. TakenOps(q)' = (rest \union leaving) \union {after}
    <3>1. {[upto |-> opPtr[t], done |-> opCommit'[t]] : t \in SlotsOf(q)} = rest \union {after}
      <4>1. [upto |-> opPtr[s], done |-> opCommit'[s]] = after
        BY <2>4, <2>5
      <4>2. \A t \in SlotsOf(q) \ {s} : opCommit'[t] = opCommit[t]
        BY <2>6
      <4> QED  BY <2>2, <4>1, <4>2
    <3>2. TakenOps(q)' = {[upto |-> opPtr[t], done |-> opCommit'[t]] : t \in SlotsOf(q)}
                           \union leaving
      BY <1>3, <1>5, RowSeenNext DEF TakenOf
    <3> HIDE DEF rest, leaving, after
    <3> QED  BY <3>1, <3>2
  <2>9. before \notin rest /\ before \notin leaving
    <3>1. \A x \in rest : x.upto # u
      BY <2>6
    <3>2. \A x \in leaving : x.done = TRUE
      OBVIOUS
    <3>3. before.upto = u /\ before.done = FALSE
      OBVIOUS
    <3> HIDE DEF rest, leaving, before
    <3> QED  BY <3>1, <3>2, <3>3
  <2>10. MarksRead(q, u)
    <3>1. \A r \in Queue : r # q => TakenOps(r)' = TakenOps(r)
      BY <1>8, <2>2
    <3> HIDE DEF rest, leaving
    <3> QED  BY <2>7, <2>8, <2>9, <3>1 DEF MarksRead
  <2> QED  BY <1>3, <1>4, <1>6, <2>10
<1> QED  BY <1>9, <1>10, <1>11

(* A register write is accepted.                                           *)
LEMMA RowWrites ==
    ASSUME RowsInv, NEW kind \in WriteKind, NEW q \in Queue, NEW data \in Nat,
           AcceptWrite(kind, q, data),
           kind = "prod" => Publishes(q, data) \/ (Unused(q) /\ data = 0),
           kind = "cons" => Unused(q) /\ data = 0,
           kind = "enable" => data = 0 \/ Reopens(q)
    PROVE  /\ Apart(pipe)' /\ \A r \in Queue : Row(r)' /\ Same(r)
           /\ UNCHANGED <<prodPtr, consPtr, resp, rung>>
<1>1. PICK op \in Op : op = Read(kind, q, data)
  BY ReadTyped DEF RowsInv, IInv
<1>2. op.kind = kind /\ op.queue = q /\ op.data = data /\ Current(op)
  BY <1>1 DEF Read, Current
<1>3. kind # "commit" /\ kind # "req"
  BY DEF WriteKind
<1>4. /\ ~Hazard(q) /\ pipe' = Append(pipe, op)
      /\ UNCHANGED <<queueVars, tableVars, resp, rung>>
  BY <1>1 DEF AcceptWrite
<1>5. rung[q] \in Nat /\ rung'[q] \in Nat /\ rung'[q] <= rung[q]
  BY <1>4 DEF RowsInv
<1>6. Apart(pipe)' /\ \A r \in Queue : Row(r)' /\ Same(r)
  BY <1>2, <1>3, <1>4, <1>5, RowEnters
<1> QED  BY <1>4, <1>6 DEF queueVars

(* The host writes what it may.                                            *)
LEMMA RowHost ==
    ASSUME RowsInv, HostWrite
    PROVE  /\ Apart(pipe)' /\ \A r \in Queue : Row(r)' /\ Same(r)
           /\ UNCHANGED <<prodPtr, consPtr, resp, rung>>
<1>1. "prod" \in WriteKind /\ "cons" \in WriteKind /\ "enable" \in WriteKind
  BY DEF WriteKind
<1>2. \A q \in Queue : Settled(q) => Unused(q)
  BY DEF Settled, Unused, SlotsOf
<1> DEFINE Goal == /\ Apart(pipe)' /\ \A r \in Queue : Row(r)' /\ Same(r)
                   /\ UNCHANGED <<prodPtr, consPtr, resp, rung>>
<1>3. ASSUME NEW q \in Queue, NEW n \in Wqe, HostPublish(q, n) PROVE Goal
  <2>1. Row(q)
    BY DEF RowsInv
  <2>2. PICK d \in Ptr : d = Plus(prodPtr[q], n)
    <3>1. n \in Nat /\ n < PtrMod
      BY Sizes, WqeAssumption, PtrSize
    <3> QED  BY <2>1, <3>1, PlusValue DEF Row
  <2>3. AcceptWrite("prod", q, d) /\ Publishes(q, d)
    BY <1>3, <2>2 DEF HostPublish, Publishes, Offset
  <2> QED  BY <1>1, <2>3, PtrNumber, RowWrites
<1>4. ASSUME NEW q \in Queue, HostDisable(q) PROVE Goal
  <2>1. AcceptWrite("enable", q, 0)
    BY <1>4 DEF HostDisable
  <2> QED  BY <1>1, <2>1, RowWrites
<1>5. ASSUME NEW q \in Queue, HostRewindProd(q) PROVE Goal
  <2>1. AcceptWrite("prod", q, 0) /\ Unused(q)
    BY <1>2, <1>5 DEF HostRewindProd
  <2> QED  BY <1>1, <2>1, RowWrites
<1>6. ASSUME NEW q \in Queue, HostRewindCons(q) PROVE Goal
  <2>1. AcceptWrite("cons", q, 0) /\ Unused(q)
    BY <1>2, <1>6 DEF HostRewindCons
  <2> QED  BY <1>1, <2>1, RowWrites
<1>7. ASSUME NEW q \in Queue, HostEnable(q) PROVE Goal
  <2>1. AcceptWrite("enable", q, 1) /\ Reopens(q)
    BY <1>2, <1>7 DEF HostEnable, Reopens
  <2> QED  BY <1>1, <2>1, RowWrites
<1> QED  BY <1>3, <1>4, <1>5, <1>6, <1>7 DEF HostWrite

(* A request is accepted.                                                  *)
LEMMA RowRequests ==
    ASSUME RowsInv, NEW q \in Queue, NEW n \in Wqe, AcceptReq(q, n)
    PROVE  /\ Apart(pipe)' /\ \A r \in Queue : Row(r)' /\ Same(r)
           /\ UNCHANGED <<prodPtr, consPtr, resp>> /\ rung' = [rung EXCEPT ![q] = @ - n]
<1>1. PICK op \in Op : op = Read("req", q, n)
  BY Sizes, ReadTyped DEF RowsInv, IInv
<1>2. op.kind = "req" /\ op.queue = q /\ op.data = n /\ Current(op)
  BY <1>1 DEF Read, Current
<1>3. /\ ~Hazard(q) /\ pipe' = Append(pipe, op) /\ n <= rung[q]
      /\ rung' = [rung EXCEPT ![q] = @ - n]
      /\ UNCHANGED <<queueVars, tableVars, resp>>
  BY <1>1 DEF AcceptReq
<1>4. rung \in [Queue -> Nat] /\ n \in Nat
  BY Sizes DEF RowsInv
<1>5. /\ rung'[q] \in Nat /\ rung'[q] <= rung[q] /\ rung[q] = rung'[q] + n
      /\ \A r \in Queue : r # q => rung'[r] = rung[r]
  BY <1>3, <1>4
<1>6. Apart(pipe)' /\ \A r \in Queue : Row(r)' /\ Same(r)
  BY <1>2, <1>3, <1>5, RowEnters
<1> QED  BY <1>3, <1>6 DEF queueVars

-----------------------------------------------------------------------------
(* The rows are kept by every step.                                        *)
LEMMA RowsKept ==
    ASSUME RowsInv, Next
    PROVE  Apart(pipe)' /\ (rung \in [Queue -> Nat])' /\ \A r \in Queue : Row(r)'
<1>1. rung \in [Queue -> Nat]
  BY DEF RowsInv
<1>2. CASE HostWrite
  BY <1>1, <1>2, RowHost
<1>3. CASE AcceptCommit
  BY <1>1, <1>3, RowCommits
<1>4. ASSUME NEW q \in Queue, NEW n \in Wqe, AcceptReq(q, n)
      PROVE  Apart(pipe)' /\ rung' \in [Queue -> Nat] /\ \A r \in Queue : Row(r)'
  <2>1. /\ Apart(pipe)' /\ \A r \in Queue : Row(r)'
        /\ rung' = [rung EXCEPT ![q] = @ - n]
    BY <1>4, RowRequests
  <2>2. rung'[q] \in Nat
    BY <2>1 DEF Row
  <2> QED  BY <1>1, <2>1, <2>2
<1>5. CASE PerformReq
  BY <1>1, <1>5, RowAnswers
<1>6. CASE PerformCommit
  BY <1>1, <1>6, RowGivesBack
<1>7. CASE PerformProd
  <2>1. Apart(pipe)' /\ \A r \in Queue : Row(r)'
    BY <1>7, RowPublishes
  <2>2. \A r \in Queue : rung'[r] \in Nat
    BY <2>1 DEF Row
  <2>3. PICK x : rung' = [rung EXCEPT ![Head(pipe).queue] = x]
    BY <1>7 DEF PerformProd
  <2>4. rung' \in [Queue -> Nat]
    BY <1>1, <2>2, <2>3
  <2> QED  BY <2>1, <2>4
<1>8. CASE PerformCons
  BY <1>1, <1>8, RowRewinds
<1>9. CASE PerformEnable
  BY <1>1, <1>9, RowEnables
<1>10. CASE TakeResp
  BY <1>1, <1>10, RowCollects
<1>11. CASE RecordCommit
  BY <1>1, <1>11, RowReads
<1> QED  BY <1>2, <1>3, <1>4, <1>5, <1>6, <1>7, <1>8, <1>9, <1>10, <1>11 DEF Next, Hardware

(* So is the invariant.                                                    *)
LEMMA RowsNext == RowsInv /\ [Next]_vars => RowsInv'
<1> SUFFICES ASSUME RowsInv, [Next]_vars PROVE RowsInv'
  OBVIOUS
<1>1. IInv'
  BY NextInv DEF RowsInv
<1>2. CASE Next
  BY <1>1, <1>2, RowsKept DEF RowsInv
<1>3. CASE UNCHANGED vars
  <2>1. UNCHANGED <<prodPtr, consPtr, enabled, opIndex, opActive, opCommit, opQueue, opPtr,
                    startPtr, finishPtr, pipe, resp, fetch, rung>>
    BY <1>3 DEF vars, queueVars, tableVars
  <2>2. ASSUME NEW r \in Queue PROVE Row(r)'
    <3>1. Row(r) /\ InPipeline(r)' = InPipeline(r) /\ SlotsOf(r)' = SlotsOf(r)
      BY <2>1 DEF RowsInv, InPipeline, SlotsOf
    <3>2. \A s : Age(s)' = Age(s)
      BY <2>1 DEF Age
    <3> QED  BY <2>1, <3>1, <3>2, RowStays
  <2>3. Apart(pipe)' /\ rung' \in [Queue -> Nat]
    BY <2>1 DEF RowsInv
  <2> QED  BY <1>1, <2>2, <2>3 DEF RowsInv
<1> QED  BY <1>2, <1>3

(* Every row starts empty.                                                 *)
LEMMA RowsInit ==
    ASSUME Init
    PROVE  /\ RowsInv
           /\ \A q \in Queue : NextPtr(q) = 0 /\ TakenOps(q) = {}
<1>1. IInv
  BY InitInv
<1>2. ASSUME NEW q \in Queue
      PROVE  /\ InPipeline(q) = {} /\ SlotsOf(q) = {}
             /\ NextPtr(q) = 0 /\ TakenOps(q) = {}
  <2>1. InPipeline(q) = {} /\ SlotsOf(q) = {} /\ consPtr[q] = 0
    BY DEF Init, InPipeline, SlotsOf
  <2>2. NextPtr(q) = NextOf({}, opPtr, opIndex[q], {}, 0)
        /\ TakenOps(q) = TakenOf({}, opPtr, opCommit, {})
    BY <2>1, RowSeen
  <2>3. NextPtr(q) = 0
    BY <2>2, NextNone
  <2>4. TakenOps(q) = {}
    BY <2>2, TakenNone
  <2> QED  BY <2>1, <2>3, <2>4
<1>3. ASSUME NEW q \in Queue PROVE Row(q)
  <2>1. prodPtr[q] = 0 /\ consPtr[q] = 0 /\ rung[q] = 0
    BY DEF Init
  <2>2. Minus(0, 0) = 0 /\ 0 \in Ptr
    BY PtrNumber, MinusSelf
  <2> QED  BY <1>2, <2>1, <2>2, PtrSize DEF Row, Offset
<1>4. Apart(pipe) /\ rung \in [Queue -> Nat]
  BY DEF Init, Apart
<1> QED  BY <1>1, <1>2, <1>3, <1>4 DEF RowsInv

-----------------------------------------------------------------------------
(* Every step as DescriptorRow sees it.                                    *)

(* A step that leaves the rows, the pointers and the answer is a stutter.  *)
LEMMA LooksLikeNothing ==
    ASSUME \A r \in Queue : Same(r), UNCHANGED <<prodPtr, consPtr, resp>>
    PROVE  UNCHANGED DR!vars
<1>1. /\ [q \in Queue |-> NextPtr(q)]' = [q \in Queue |-> NextPtr(q)]
      /\ [q \in Queue |-> TakenOps(q)]' = [q \in Queue |-> TakenOps(q)]
  BY DEF Same
<1> QED  BY <1>1 DEF DR!vars

(* A producer pointer: Publish, or Rewind.                                 *)
LEMMA LooksLikeProd == RowsInv /\ PerformProd => DR!Next
<1> SUFFICES ASSUME RowsInv, PerformProd PROVE DR!Next
  OBVIOUS
<1>1. /\ \A r \in Queue : Same(r)
      /\ UNCHANGED <<consPtr, resp>>
  BY RowPublishes
<1>2. PICK q \in Queue :
        \/ \E n \in Wqe :
             /\ Minus(prodPtr[q], consPtr[q]) + n < PtrMod
             /\ prodPtr' = [prodPtr EXCEPT ![q] = Plus(@, n)]
        \/ TakenOps(q) = {} /\ prodPtr' = [prodPtr EXCEPT ![q] = 0]
  BY RowPublishes
<1>3. /\ [r \in Queue |-> NextPtr(r)]' = [r \in Queue |-> NextPtr(r)]
      /\ [r \in Queue |-> TakenOps(r)]' = [r \in Queue |-> TakenOps(r)]
  BY <1>1 DEF Same
<1>4. CASE \E n \in Wqe :
             /\ Minus(prodPtr[q], consPtr[q]) + n < PtrMod
             /\ prodPtr' = [prodPtr EXCEPT ![q] = Plus(@, n)]
  <2>1. PICK n \in Wqe :
             /\ Minus(prodPtr[q], consPtr[q]) + n < PtrMod
             /\ prodPtr' = [prodPtr EXCEPT ![q] = Plus(@, n)]
    BY <1>4
  <2>2. DR!Publish(q, n)
    BY <1>1, <1>3, <2>1 DEF DR!Publish, DR!Minus, DR!Plus, Minus, Plus
  <2> QED  BY <2>2 DEF DR!Next
<1>5. CASE TakenOps(q) = {} /\ prodPtr' = [prodPtr EXCEPT ![q] = 0]
  <2>1. DR!Rewind(q)
    BY <1>1, <1>3, <1>5 DEF DR!Rewind
  <2> QED  BY <2>1 DEF DR!Next
<1> QED  BY <1>2, <1>4, <1>5

(* A consumer pointer of the host: Rewind.                                 *)
LEMMA LooksLikeCons == RowsInv /\ PerformCons => DR!Next
<1> SUFFICES ASSUME RowsInv, PerformCons PROVE DR!Next
  OBVIOUS
<1>1. /\ \A r \in Queue : TakenOps(r)' = TakenOps(r)
      /\ UNCHANGED <<prodPtr, resp>>
  BY RowRewinds
<1>2. PICK q \in Queue :
        /\ TakenOps(q) = {}
        /\ consPtr' = [consPtr EXCEPT ![q] = 0]
        /\ NextPtr(q)' = 0
        /\ \A r \in Queue : r # q => NextPtr(r)' = NextPtr(r)
  BY RowRewinds
<1>3. [r \in Queue |-> TakenOps(r)]' = [r \in Queue |-> TakenOps(r)]
  BY <1>1
<1>4. [r \in Queue |-> NextPtr(r)]' = [[r \in Queue |-> NextPtr(r)] EXCEPT ![q] = 0]
  BY <1>2
<1>5. DR!Rewind(q)
  BY <1>1, <1>2, <1>3, <1>4 DEF DR!Rewind
<1> QED  BY <1>5 DEF DR!Next

(* A commit: GiveBack.                                                     *)
LEMMA LooksLikeGiveBack == RowsInv /\ PerformCommit => DR!Next
<1> SUFFICES ASSUME RowsInv, PerformCommit PROVE DR!Next
  OBVIOUS
<1>1. /\ \A r \in Queue : NextPtr(r)' = NextPtr(r)
      /\ UNCHANGED <<prodPtr, resp>>
  BY RowGivesBack
<1>2. PICK q \in Queue, d \in Ptr :
        /\ [upto |-> d, done |-> TRUE] \in TakenOps(q)
        /\ \A p \in TakenOps(q) : Minus(d, consPtr[q]) <= Minus(p.upto, consPtr[q])
        /\ consPtr' = [consPtr EXCEPT ![q] = d]
        /\ TakenOps(q)' = TakenOps(q) \ {[upto |-> d, done |-> TRUE]}
        /\ \A r \in Queue : r # q => TakenOps(r)' = TakenOps(r)
  BY RowGivesBack
<1> DEFINE o == [upto |-> d, done |-> TRUE]
<1>3. o.upto = d /\ o.done
  OBVIOUS
<1>4. [r \in Queue |-> NextPtr(r)]' = [r \in Queue |-> NextPtr(r)]
  BY <1>1
<1>5. [r \in Queue |-> TakenOps(r)]' = [[r \in Queue |-> TakenOps(r)] EXCEPT ![q] = @ \ {o}]
  BY <1>2
<1>6. o \in [r \in Queue |-> TakenOps(r)][q]
  BY <1>2
<1>7. \A p \in [r \in Queue |-> TakenOps(r)][q] :
         Minus(o.upto, consPtr[q]) <= Minus(p.upto, consPtr[q])
  BY <1>2
<1>8. consPtr' = [consPtr EXCEPT ![q] = o.upto]
  BY <1>2
<1> HIDE DEF o
<1>9. DR!GiveBack(q, o)
  BY <1>1, <1>3, <1>4, <1>5, <1>7, <1>8 DEF DR!GiveBack, DR!Minus, Minus
<1> QED  BY <1>6, <1>9 DEF DR!Next

(* A descriptor read: MarkRead, or a stutter.                              *)
LEMMA LooksLikeMarkRead == RowsInv /\ RecordCommit => [DR!Next]_(DR!vars)
<1> SUFFICES ASSUME RowsInv, RecordCommit PROVE [DR!Next]_(DR!vars)
  OBVIOUS
<1>1. /\ \A r \in Queue : NextPtr(r)' = NextPtr(r)
      /\ UNCHANGED <<prodPtr, consPtr, resp>>
      /\ \/ \A r \in Queue : TakenOps(r)' = TakenOps(r)
         \/ \E q \in Queue, u \in Ptr : MarksRead(q, u)
  BY RowReads
<1>2. CASE \A r \in Queue : TakenOps(r)' = TakenOps(r)
  BY <1>1, <1>2, LooksLikeNothing DEF Same
<1>3. ASSUME NEW q \in Queue, NEW u \in Ptr, MarksRead(q, u) PROVE DR!Next
  <2> DEFINE o == [upto |-> u, done |-> FALSE]
  <2>1. o.upto = u /\ ~o.done
    OBVIOUS
  <2>2. [r \in Queue |-> NextPtr(r)]' = [r \in Queue |-> NextPtr(r)]
    BY <1>1
  <2>3. [r \in Queue |-> TakenOps(r)]' =
          [[r \in Queue |-> TakenOps(r)] EXCEPT ![q] =
             (@ \ {o}) \union {[upto |-> o.upto, done |-> TRUE]}]
    BY <1>3 DEF MarksRead
  <2>4. o \in [r \in Queue |-> TakenOps(r)][q]
    BY <1>3 DEF MarksRead
  <2> HIDE DEF o
  <2>5. DR!MarkRead(q, o)
    BY <1>1, <2>1, <2>2, <2>3 DEF DR!MarkRead
  <2> QED  BY <2>4, <2>5 DEF DR!Next
<1> QED  BY <1>1, <1>2, <1>3

(* The answer as DescriptorRow sees it.                                    *)
RowAnswer == IF resp = None THEN None
             ELSE [queue |-> resp.queue, ptr |-> resp.ptr, wqe |-> resp.wqe,
                   granted |-> resp.status = "ok"]

(* A request performed: HandOut, or Refuse.                                *)
LEMMA LooksLikeHandOut == RowsInv /\ PerformReq => DR!Next
<1> SUFFICES ASSUME RowsInv, PerformReq PROVE DR!Next
  OBVIOUS
<1>1. UNCHANGED <<prodPtr, consPtr>> /\ resp = None /\ resp' # None
  BY RowAnswers
<1>2. PICK q \in Queue, n \in Wqe :
        /\ resp'.queue = q /\ resp'.ptr = NextPtr(q) /\ resp'.wqe = n
        /\ HandsOut(q, n) \/ Refuses(q, n)
  BY RowAnswers
<1>3. RowAnswer = None
  BY <1>1 DEF RowAnswer
<1>4. CASE HandsOut(q, n)
  <2>1. RowAnswer' = [queue |-> q, ptr |-> NextPtr(q), wqe |-> n, granted |-> TRUE]
    BY <1>1, <1>2, <1>4 DEF HandsOut, RowAnswer
  <2>2. n <= Minus(prodPtr[q], [r \in Queue |-> NextPtr(r)][q])
    BY <1>4 DEF HandsOut
  <2>3. [r \in Queue |-> NextPtr(r)]' = [[r \in Queue |-> NextPtr(r)] EXCEPT ![q] = Plus(@, n)]
    BY <1>4 DEF HandsOut, Same
  <2>4. [r \in Queue |-> TakenOps(r)]' =
          [[r \in Queue |-> TakenOps(r)] EXCEPT ![q] =
             @ \union {[upto |-> Plus([r \in Queue |-> NextPtr(r)][q], n), done |-> FALSE]}]
    BY <1>4 DEF HandsOut, Same
  <2>5. RowAnswer' = [queue |-> q, ptr |-> [r \in Queue |-> NextPtr(r)][q], wqe |-> n,
                      granted |-> TRUE]
    BY <2>1
  <2>6. DR!HandOut(q, n)
    BY <1>1, <1>3, <2>2, <2>3, <2>4, <2>5
       DEF DR!HandOut, DR!Minus, DR!Plus, Minus, Plus, RowAnswer
  <2> QED  BY <2>6 DEF DR!Next
<1>5. CASE Refuses(q, n)
  <2>1. RowAnswer' = [queue |-> q, ptr |-> [r \in Queue |-> NextPtr(r)][q], wqe |-> n,
                      granted |-> FALSE]
    BY <1>1, <1>2, <1>5 DEF Refuses, RowAnswer
  <2>2. /\ [r \in Queue |-> NextPtr(r)]' = [r \in Queue |-> NextPtr(r)]
        /\ [r \in Queue |-> TakenOps(r)]' = [r \in Queue |-> TakenOps(r)]
    BY <1>5 DEF Refuses, Same
  <2>3. DR!Refuse(q, n)
    BY <1>1, <1>3, <2>1, <2>2 DEF DR!Refuse, RowAnswer
  <2> QED  BY <2>3 DEF DR!Next
<1> QED  BY <1>2, <1>4, <1>5

(* The answer taken: Collect.                                              *)
LEMMA LooksLikeCollect == RowsInv /\ TakeResp => DR!Next
<1> SUFFICES ASSUME RowsInv, TakeResp PROVE DR!Next
  OBVIOUS
<1>1. /\ \A r \in Queue : Same(r)
      /\ UNCHANGED <<prodPtr, consPtr>> /\ resp # None /\ resp' = None
  BY RowCollects
<1>2. RowAnswer # None
  <2>1. resp \in Answer
    BY <1>1 DEF RowsInv, IInv, Typing
  <2>2. RowAnswer \in [queue : Queue, ptr : Nat, wqe : Nat, granted : BOOLEAN]
    BY <1>1, <2>1 DEF RowAnswer, Answer
  <2> QED  BY <2>2, NoneAssumption
<1>3. RowAnswer' = None
  BY <1>1 DEF RowAnswer
<1>4. /\ [r \in Queue |-> NextPtr(r)]' = [r \in Queue |-> NextPtr(r)]
      /\ [r \in Queue |-> TakenOps(r)]' = [r \in Queue |-> TakenOps(r)]
  BY <1>1 DEF Same
<1>5. DR!Collect
  BY <1>1, <1>2, <1>3, <1>4 DEF DR!Collect, RowAnswer
<1> QED  BY <1>5 DEF DR!Next

(* So every step is one of DescriptorRow.                                  *)
LEMMA StepsLookRight == RowsInv /\ [Next]_vars => [DR!Next]_(DR!vars)
<1> SUFFICES ASSUME RowsInv, [Next]_vars PROVE [DR!Next]_(DR!vars)
  OBVIOUS
<1>1. CASE HostWrite
  BY <1>1, RowHost, LooksLikeNothing
<1>2. CASE AcceptCommit
  BY <1>2, RowCommits, LooksLikeNothing
<1>3. ASSUME NEW q \in Queue, NEW n \in Wqe, AcceptReq(q, n) PROVE UNCHANGED DR!vars
  BY <1>3, RowRequests, LooksLikeNothing
<1>4. CASE PerformEnable
  BY <1>4, RowEnables, LooksLikeNothing
<1>5. CASE UNCHANGED vars
  <2>1. UNCHANGED <<prodPtr, consPtr, opIndex, opActive, opCommit, opQueue, opPtr, pipe, resp>>
    BY <1>5 DEF vars, queueVars, tableVars
  <2>2. \A r \in Queue : Same(r)
    BY <2>1 DEF Same, NextPtr, TakenOps, Leaving, InPipeline, SlotsOf
  <2> QED  BY <2>1, <2>2, LooksLikeNothing
<1>6. CASE PerformReq
  BY <1>6, LooksLikeHandOut
<1>7. CASE PerformCommit
  BY <1>7, LooksLikeGiveBack
<1>8. CASE PerformProd
  BY <1>8, LooksLikeProd
<1>9. CASE PerformCons
  BY <1>9, LooksLikeCons
<1>10. CASE TakeResp
  BY <1>10, LooksLikeCollect
<1>11. CASE RecordCommit
  BY <1>11, LooksLikeMarkRead
<1> QED  BY <1>1, <1>2, <1>3, <1>4, <1>5, <1>6, <1>7, <1>8, <1>9, <1>10, <1>11
         DEF Next, Hardware

(* It starts as DescriptorRow does.                                        *)
LEMMA StartsRight == Init => DR!Init
<1> SUFFICES ASSUME Init PROVE DR!Init
  OBVIOUS
<1>1. \A q \in Queue : NextPtr(q) = 0 /\ TakenOps(q) = {}
  BY RowsInit
<1>2. [q \in Queue |-> NextPtr(q)] = [q \in Queue |-> 0]
      /\ [q \in Queue |-> TakenOps(q)] = [q \in Queue |-> {}]
  BY <1>1
<1>3. prodPtr = [q \in Queue |-> 0] /\ consPtr = [q \in Queue |-> 0] /\ resp = None
  BY DEF Init
<1> QED  BY <1>2, <1>3 DEF DR!Init

(* Whatever dequeues of whichever queues are under way, in the pipeline,   *)
(* in the operation table and in desc_fetch, and whenever the host closes  *)
(* and reopens a queue: the descriptors of a queue are handed out once     *)
(* each, in order and only when published, and its consumer pointer passes *)
(* them in order and only when they have been read                         *)
(* (tx_queue_manager_change.v, desc_fetch.v).                              *)
THEOREM KeepsDescriptorRow == Spec => ImplementsDescriptorRow
<1>1. Init => RowsInv
  BY RowsInit
<1> QED  BY <1>1, RowsNext, StartsRight, StepsLookRight, PTL
         DEF Spec, ImplementsDescriptorRow, DR!Spec
=============================================================================
