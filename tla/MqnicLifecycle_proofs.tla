----------------------- MODULE MqnicLifecycle_proofs ------------------------
(***************************************************************************)
(* The life of the queues for any number of rings, packets, closings and   *)
(* writes on their way: no queue runs that is not its owner's, and the     *)
(* interrupt handler knows every event it reads.  Every register is judged *)
(* by what it will be when the writes on their way have arrived; where the *)
(* coroutine stands decides what the registers of a ring must be.          *)
(***************************************************************************)
EXTENDS MqnicLifecycle, FiniteSetTheorems, FunctionTheorems, WellFoundedInduction, TLAPS

-----------------------------------------------------------------------------
(* A register and the writes ps on their way to it, of which the first is  *)
(* the oldest.  It is disabled after the first n of them; and after all of *)
(* them it holds the configuration <<k, c>>, if now it is enabled and      *)
(* holds that configuration as on and holds say.                           *)
Sets(ps, j, r, do) == ps[j].reg = r /\ ps[j].do = do

OffIn(ps, on, r, n) ==
    /\ \A j \in 1 .. n : Sets(ps, j, r, "enable") =>
        \E i \in j + 1 .. n : Sets(ps, i, r, "disable")
    /\ on => \E i \in 1 .. n : Sets(ps, i, r, "disable")

CfgIn(ps, holds, r, k, c) ==
    \/ \E j \in 1 .. Len(ps) :
        /\ Sets(ps, j, r, "config") /\ ps[j].cfg = k /\ ps[j].cq = c
        /\ \A i \in j + 1 .. Len(ps) : ~Sets(ps, i, r, "config")
    \/ holds /\ \A i \in 1 .. Len(ps) : ~Sets(ps, i, r, "config")

(* A configuration that arrives while the queue is disabled is taken.      *)
LandsIn(ps, on, r) ==
    \A j \in 1 .. Len(ps) : Sets(ps, j, r, "config") => OffIn(ps, on, r, j)

(* A write is posted.                                                      *)
LEMMA OffAppend ==
    ASSUME NEW S, NEW ps \in Seq(S), NEW w \in S, NEW on \in BOOLEAN, NEW r
    PROVE  /\ \A n \in 0 .. Len(ps) : OffIn(Append(ps, w), on, r, n) <=> OffIn(ps, on, r, n)
           /\ w.reg = r /\ w.do = "disable" => OffIn(Append(ps, w), on, r, Len(ps) + 1)
           /\ w.reg = r /\ w.do = "enable" => ~OffIn(Append(ps, w), on, r, Len(ps) + 1)
           /\ ~(w.reg = r /\ w.do \in {"enable", "disable"}) =>
                OffIn(Append(ps, w), on, r, Len(ps) + 1) <=> OffIn(ps, on, r, Len(ps))
<1>1. PICK qs : qs = Append(ps, w)
  OBVIOUS
<1>2. PICK m \in Nat : m = Len(ps)
  OBVIOUS
<1>3. /\ \A j \in 1 .. m : qs[j] = ps[j]
      /\ qs[m + 1] = w
  BY <1>1, <1>2
<1>4. /\ \A j \in 1 .. m, do \in {"enable", "disable"} : Sets(qs, j, r, do) = Sets(ps, j, r, do)
      /\ \A do \in {"enable", "disable"} : Sets(qs, m + 1, r, do) = (w.reg = r /\ w.do = do)
  BY <1>3 DEF Sets
<1>5. \A n \in 0 .. m : OffIn(qs, on, r, n) <=> OffIn(ps, on, r, n)
  <2> SUFFICES ASSUME NEW n \in 0 .. m PROVE OffIn(qs, on, r, n) <=> OffIn(ps, on, r, n)
    OBVIOUS
  <2>1. \A j \in 1 .. n : \A i \in j + 1 .. n : i \in 1 .. m
    OBVIOUS
  <2>2. \A j \in 1 .. n : j \in 1 .. m
    OBVIOUS
  <2> QED  BY <1>4, <2>1, <2>2 DEF OffIn
<1>6. ASSUME w.reg = r, w.do = "disable" PROVE OffIn(qs, on, r, m + 1)
  <2>1. Sets(qs, m + 1, r, "disable") /\ ~Sets(qs, m + 1, r, "enable")
    BY <1>4, <1>6
  <2>2. \A j \in 1 .. m + 1 : j # m + 1 => m + 1 \in j + 1 .. m + 1
    BY <1>2
  <2>3. m + 1 \in 1 .. m + 1
    BY <1>2
  <2> QED  BY <2>1, <2>2, <2>3 DEF OffIn
<1>7. ASSUME w.reg = r, w.do = "enable" PROVE ~OffIn(qs, on, r, m + 1)
  <2>1. Sets(qs, m + 1, r, "enable")
    BY <1>4, <1>7
  <2>2. m + 1 \in 1 .. m + 1 /\ ~\E i \in (m + 1) + 1 .. m + 1 : TRUE
    BY <1>2
  <2> QED  BY <2>1, <2>2 DEF OffIn
<1>8. ASSUME ~(w.reg = r /\ w.do \in {"enable", "disable"})
      PROVE  OffIn(qs, on, r, m + 1) <=> OffIn(ps, on, r, m)
  <2>1. ~Sets(qs, m + 1, r, "enable") /\ ~Sets(qs, m + 1, r, "disable")
    BY <1>4, <1>8
  <2>2. OffIn(qs, on, r, m + 1) <=> OffIn(qs, on, r, m)
    <3>1. \A j : j \in 1 .. m + 1 <=> j \in 1 .. m \/ j = m + 1
      BY <1>2
    <3>2. \A j \in 1 .. m : \A i : i \in j + 1 .. m + 1 <=> i \in j + 1 .. m \/ i = m + 1
      BY <1>2
    <3> QED  BY <2>1, <3>1, <3>2 DEF OffIn
  <2> QED  BY <1>5, <2>2
<1> QED  BY <1>1, <1>2, <1>5, <1>6, <1>7, <1>8

(* The oldest write arrives.                                               *)
LEMMA OffTail ==
    ASSUME NEW S, NEW ps \in Seq(S), ps # <<>>, NEW on \in BOOLEAN, NEW off \in BOOLEAN, NEW r,
           off <=> Sets(ps, 1, r, "enable") \/ (on /\ ~Sets(ps, 1, r, "disable")),
           NEW n \in 0 .. Len(ps) - 1
    PROVE  OffIn(Tail(ps), off, r, n) <=> OffIn(ps, on, r, n + 1)
<1>1. PICK qs : qs = Tail(ps)
  OBVIOUS
<1>2. PICK m \in Nat : m = Len(ps)
  OBVIOUS
<1>3. /\ m >= 1 /\ n \in Nat
      /\ \A j \in 1 .. m - 1 : qs[j] = ps[j + 1]
  BY <1>1, <1>2
<1>4. \A j \in 1 .. n, do \in {"enable", "disable"} : Sets(qs, j, r, do) = Sets(ps, j + 1, r, do)
  <2>1. \A j \in 1 .. n : j \in 1 .. m - 1
    BY <1>2, <1>3
  <2> QED  BY <1>3, <2>1 DEF Sets
<1>5. /\ \A j \in 1 .. n : j + 1 \in 2 .. n + 1
      /\ \A j \in 2 .. n + 1 : j - 1 \in 1 .. n /\ (j - 1) + 1 = j
      /\ \A j : j \in 1 .. n + 1 <=> j = 1 \/ j \in 2 .. n + 1
  BY <1>3
<1>6. ~(Sets(ps, 1, r, "enable") /\ Sets(ps, 1, r, "disable"))
  BY DEF Sets
<1>7. (\E i \in 1 .. n : Sets(qs, i, r, "disable"))
      = (\E i \in 2 .. n + 1 : Sets(ps, i, r, "disable"))
  BY <1>4, <1>5
<1>8. (\A j \in 1 .. n : Sets(qs, j, r, "enable") =>
            \E i \in j + 1 .. n : Sets(qs, i, r, "disable"))
      = (\A j \in 2 .. n + 1 : Sets(ps, j, r, "enable") =>
            \E i \in j + 1 .. n + 1 : Sets(ps, i, r, "disable"))
  <2>1. ASSUME NEW j \in 1 .. n
        PROVE  (\E i \in j + 1 .. n : Sets(qs, i, r, "disable"))
               = (\E i \in (j + 1) + 1 .. n + 1 : Sets(ps, i, r, "disable"))
    <3>1. \A i \in j + 1 .. n : i \in 1 .. n /\ i + 1 \in (j + 1) + 1 .. n + 1
      BY <1>3, <2>1
    <3>2. \A i \in (j + 1) + 1 .. n + 1 : i \in 2 .. n + 1 /\ i - 1 \in j + 1 .. n
      BY <1>3, <2>1
    <3> QED  BY <1>4, <1>5, <3>1, <3>2
  <2>2. ASSUME NEW j \in 2 .. n + 1
        PROVE  (\E i \in (j - 1) + 1 .. n : Sets(qs, i, r, "disable"))
               = (\E i \in j + 1 .. n + 1 : Sets(ps, i, r, "disable"))
    BY <1>5, <2>1
  <2>3. \A j \in 2 .. n + 1 : Sets(qs, j - 1, r, "enable") = Sets(ps, j, r, "enable")
    BY <1>4, <1>5
  <2>4. ASSUME \A j \in 1 .. n : Sets(qs, j, r, "enable") =>
                  \E i \in j + 1 .. n : Sets(qs, i, r, "disable"),
               NEW j \in 2 .. n + 1, Sets(ps, j, r, "enable")
        PROVE  \E i \in j + 1 .. n + 1 : Sets(ps, i, r, "disable")
    <3>1. j - 1 \in 1 .. n /\ Sets(qs, j - 1, r, "enable")
      BY <1>5, <2>3, <2>4
    <3>2. \E i \in (j - 1) + 1 .. n : Sets(qs, i, r, "disable")
      BY <2>4, <3>1
    <3> QED  BY <2>2, <3>2
  <2>5. ASSUME \A j \in 2 .. n + 1 : Sets(ps, j, r, "enable") =>
                  \E i \in j + 1 .. n + 1 : Sets(ps, i, r, "disable"),
               NEW j \in 1 .. n, Sets(qs, j, r, "enable")
        PROVE  \E i \in j + 1 .. n : Sets(qs, i, r, "disable")
    <3>1. j + 1 \in 2 .. n + 1 /\ Sets(ps, j + 1, r, "enable")
      BY <1>4, <1>5, <2>5
    <3>2. \E i \in (j + 1) + 1 .. n + 1 : Sets(ps, i, r, "disable")
      BY <2>5, <3>1
    <3> QED  BY <2>1, <3>2
  <2> QED  BY <2>4, <2>5
<1>9. (1 + 1) .. (n + 1) = 2 .. n + 1 /\ 1 \in 1 .. n + 1
  BY <1>3
<1>10. OffIn(ps, on, r, n + 1) <=>
         /\ Sets(ps, 1, r, "enable") => \E i \in 2 .. n + 1 : Sets(ps, i, r, "disable")
         /\ \A j \in 2 .. n + 1 : Sets(ps, j, r, "enable") =>
                \E i \in j + 1 .. n + 1 : Sets(ps, i, r, "disable")
         /\ on => Sets(ps, 1, r, "disable") \/ \E i \in 2 .. n + 1 : Sets(ps, i, r, "disable")
  BY <1>5, <1>9 DEF OffIn
<1>11. OffIn(qs, off, r, n) <=>
         /\ \A j \in 2 .. n + 1 : Sets(ps, j, r, "enable") =>
                \E i \in j + 1 .. n + 1 : Sets(ps, i, r, "disable")
         /\ off => \E i \in 2 .. n + 1 : Sets(ps, i, r, "disable")
  BY <1>7, <1>8 DEF OffIn
<1> QED  BY <1>1, <1>6, <1>10, <1>11

(* What is configured when one more write has been posted.                 *)
LEMMA CfgAppend ==
    ASSUME NEW S, NEW ps \in Seq(S), NEW w \in S, NEW holds \in BOOLEAN, NEW r, NEW k, NEW c
    PROVE  /\ w.reg = r /\ w.do = "config" =>
                CfgIn(Append(ps, w), holds, r, k, c) <=> (w.cfg = k /\ w.cq = c)
           /\ ~(w.reg = r /\ w.do = "config") =>
                CfgIn(Append(ps, w), holds, r, k, c) <=> CfgIn(ps, holds, r, k, c)
<1>1. PICK qs : qs = Append(ps, w)
  OBVIOUS
<1>2. PICK m \in Nat : m = Len(ps)
  OBVIOUS
<1>3. /\ \A j \in 1 .. m : qs[j] = ps[j]
      /\ qs[m + 1] = w /\ Len(qs) = m + 1
  BY <1>1, <1>2
<1>4. /\ \A j \in 1 .. m : Sets(qs, j, r, "config") = Sets(ps, j, r, "config")
      /\ Sets(qs, m + 1, r, "config") = (w.reg = r /\ w.do = "config")
  BY <1>3 DEF Sets
<1>5. /\ m + 1 \in 1 .. m + 1
      /\ \A j : j \in 1 .. m + 1 <=> j \in 1 .. m \/ j = m + 1
      /\ \A j \in 1 .. m : \A i : i \in j + 1 .. m + 1 <=> i \in j + 1 .. m \/ i = m + 1
      /\ \A j \in 1 .. m : \A i \in j + 1 .. m : i \in 1 .. m
      /\ ~\E i \in (m + 1) + 1 .. m + 1 : TRUE
  BY <1>2
<1>6. ASSUME w.reg = r, w.do = "config"
      PROVE  CfgIn(qs, holds, r, k, c) <=> (w.cfg = k /\ w.cq = c)
  <2>1. Sets(qs, m + 1, r, "config")
    BY <1>4, <1>6
  <2>2. ASSUME w.cfg = k, w.cq = c PROVE CfgIn(qs, holds, r, k, c)
    BY <1>3, <1>5, <2>1, <2>2 DEF CfgIn
  <2>3. ASSUME CfgIn(qs, holds, r, k, c) PROVE w.cfg = k /\ w.cq = c
    BY <1>3, <1>5, <2>1, <2>3 DEF CfgIn
  <2> QED  BY <2>2, <2>3 DEF CfgIn
<1>7. ASSUME ~(w.reg = r /\ w.do = "config")
      PROVE  CfgIn(qs, holds, r, k, c) <=> CfgIn(ps, holds, r, k, c)
  <2>1. ~Sets(qs, m + 1, r, "config")
    BY <1>4, <1>7
  <2>2. (\A i \in 1 .. m + 1 : ~Sets(qs, i, r, "config"))
        = (\A i \in 1 .. m : ~Sets(ps, i, r, "config"))
    BY <1>4, <1>5, <2>1
  <2>3. \A j \in 1 .. m : (\A i \in j + 1 .. m + 1 : ~Sets(qs, i, r, "config"))
                          = (\A i \in j + 1 .. m : ~Sets(ps, i, r, "config"))
    BY <1>4, <1>5, <2>1
  <2> DEFINE Final(j) == /\ Sets(ps, j, r, "config") /\ ps[j].cfg = k /\ ps[j].cq = c
                        /\ \A i \in j + 1 .. m : ~Sets(ps, i, r, "config")
             NewLast(j) == /\ Sets(qs, j, r, "config") /\ qs[j].cfg = k /\ qs[j].cq = c
                           /\ \A i \in j + 1 .. m + 1 : ~Sets(qs, i, r, "config")
  <2>4. CfgIn(qs, holds, r, k, c) <=> ((\E j \in 1 .. m + 1 : NewLast(j))
                                     \/ (holds /\ \A i \in 1 .. m + 1 : ~Sets(qs, i, r, "config")))
    BY <1>3 DEF CfgIn
  <2>5. CfgIn(ps, holds, r, k, c) <=> ((\E j \in 1 .. m : Final(j))
                                     \/ (holds /\ \A i \in 1 .. m : ~Sets(ps, i, r, "config")))
    BY <1>2 DEF CfgIn
  <2>6. \A j \in 1 .. m : NewLast(j) = Final(j)
    BY <1>3, <1>4, <2>3
  <2>7. ~NewLast(m + 1)
    BY <2>1
  <2> HIDE DEF Final, NewLast
  <2> QED  BY <1>5, <2>2, <2>4, <2>5, <2>6, <2>7
<1> QED  BY <1>1, <1>6, <1>7

(* A write arrives; if it configures the queue, the queue is disabled.     *)
LEMMA CfgTail ==
    ASSUME NEW S, NEW ps \in Seq(S), ps # <<>>, NEW holds \in BOOLEAN, NEW held \in BOOLEAN,
           NEW r, NEW k, NEW c,
           Sets(ps, 1, r, "config") => (held <=> ps[1].cfg = k /\ ps[1].cq = c),
           ~Sets(ps, 1, r, "config") => (held <=> holds)
    PROVE  CfgIn(Tail(ps), held, r, k, c) <=> CfgIn(ps, holds, r, k, c)
<1>1. PICK qs : qs = Tail(ps)
  OBVIOUS
<1>2. PICK m \in Nat : m = Len(ps) - 1
  OBVIOUS
<1>3. /\ \A j \in 1 .. m : qs[j] = ps[j + 1]
      /\ Len(qs) = m /\ Len(ps) = m + 1
  BY <1>1, <1>2
<1>4. \A j \in 1 .. m : Sets(qs, j, r, "config") = Sets(ps, j + 1, r, "config")
  BY <1>3 DEF Sets
<1>5. /\ \A j \in 1 .. m : j + 1 \in 2 .. m + 1
      /\ \A j \in 2 .. m + 1 : j - 1 \in 1 .. m /\ (j - 1) + 1 = j
      /\ \A j : j \in 1 .. m + 1 <=> j = 1 \/ j \in 2 .. m + 1
      /\ (1 + 1) .. (m + 1) = 2 .. m + 1
  BY <1>2
<1>6. (\A i \in 1 .. m : ~Sets(qs, i, r, "config"))
      <=> (\A i \in 2 .. m + 1 : ~Sets(ps, i, r, "config"))
  BY <1>4, <1>5
<1>7. ASSUME NEW j \in 1 .. m
      PROVE  (\A i \in j + 1 .. m : ~Sets(qs, i, r, "config"))
             = (\A i \in (j + 1) + 1 .. m + 1 : ~Sets(ps, i, r, "config"))
  <2>1. \A i \in j + 1 .. m : i \in 1 .. m /\ i + 1 \in (j + 1) + 1 .. m + 1
    BY <1>2, <1>7
  <2>2. \A i \in (j + 1) + 1 .. m + 1 : i \in 2 .. m + 1 /\ i - 1 \in j + 1 .. m
    BY <1>2, <1>7
  <2> QED  BY <1>4, <1>5, <2>1, <2>2
<1> DEFINE Final(j) == /\ Sets(ps, j, r, "config") /\ ps[j].cfg = k /\ ps[j].cq = c
                      /\ \A i \in j + 1 .. m + 1 : ~Sets(ps, i, r, "config")
           LastLeft(j) == /\ Sets(qs, j, r, "config") /\ qs[j].cfg = k /\ qs[j].cq = c
                          /\ \A i \in j + 1 .. m : ~Sets(qs, i, r, "config")
<1>8. \A j \in 1 .. m : LastLeft(j) = Final(j + 1)
  BY <1>3, <1>4, <1>7
<1>9. CfgIn(qs, held, r, k, c) <=>
        ((\E j \in 1 .. m : LastLeft(j)) \/ (held /\ \A i \in 1 .. m : ~Sets(qs, i, r, "config")))
  BY <1>3 DEF CfgIn
<1>10. CfgIn(ps, holds, r, k, c) <=>
        ((\E j \in 1 .. m + 1 : Final(j))
            \/ (holds /\ \A i \in 1 .. m + 1 : ~Sets(ps, i, r, "config")))
  BY <1>3 DEF CfgIn
<1>11. Final(1) <=> (/\ Sets(ps, 1, r, "config") /\ ps[1].cfg = k /\ ps[1].cq = c
                  /\ \A i \in 2 .. m + 1 : ~Sets(ps, i, r, "config"))
  BY <1>5
<1> HIDE DEF Final, LastLeft
<1>12. (\E j \in 1 .. m : LastLeft(j)) <=> (\E j \in 2 .. m + 1 : Final(j))
  BY <1>5, <1>8
<1>13. (\E j \in 1 .. m + 1 : Final(j)) <=> (Final(1) \/ \E j \in 2 .. m + 1 : Final(j))
  BY <1>5
<1>14. (\A i \in 1 .. m + 1 : ~Sets(ps, i, r, "config"))
       <=> (~Sets(ps, 1, r, "config") /\ \A i \in 2 .. m + 1 : ~Sets(ps, i, r, "config"))
  BY <1>5
<1>15. CASE Sets(ps, 1, r, "config")
  <2>1. held <=> ps[1].cfg = k /\ ps[1].cq = c
    BY <1>15
  <2> QED  BY <2>1, <1>1, <1>6, <1>9, <1>10, <1>11, <1>12, <1>13, <1>14, <1>15
<1>16. CASE ~Sets(ps, 1, r, "config")
  <2>1. held <=> holds
    BY <1>16
  <2> QED  BY <2>1, <1>1, <1>6, <1>9, <1>10, <1>11, <1>12, <1>13, <1>14, <1>16
<1> QED  BY <1>15, <1>16

(* A configuration is posted for a queue that will be disabled by then.    *)
LEMMA LandsAppend ==
    ASSUME NEW S, NEW ps \in Seq(S), NEW w \in S, NEW on \in BOOLEAN, NEW r,
           LandsIn(ps, on, r),
           w.reg = r /\ w.do = "config" => OffIn(ps, on, r, Len(ps))
    PROVE  LandsIn(Append(ps, w), on, r)
<1>1. PICK qs : qs = Append(ps, w)
  OBVIOUS
<1>2. PICK m \in Nat : m = Len(ps)
  OBVIOUS
<1>3. /\ \A j \in 1 .. m : qs[j] = ps[j]
      /\ qs[m + 1] = w /\ Len(qs) = m + 1
  BY <1>1, <1>2
<1> SUFFICES ASSUME NEW j \in 1 .. m + 1, Sets(qs, j, r, "config") PROVE OffIn(qs, on, r, j)
  BY <1>1, <1>3 DEF LandsIn
<1>4. CASE j \in 1 .. m
  <2>1. OffIn(ps, on, r, j)
    BY <1>2, <1>3, <1>4 DEF LandsIn, Sets
  <2>2. j \in 0 .. Len(ps)
    BY <1>2, <1>4
  <2> QED  BY <1>1, <2>1, <2>2, OffAppend
<1>5. CASE j = m + 1
  <2>1. w.reg = r /\ w.do = "config"
    BY <1>3, <1>5 DEF Sets
  <2>2. OffIn(qs, on, r, Len(ps) + 1) <=> OffIn(ps, on, r, Len(ps))
    BY <1>1, <2>1, OffAppend
  <2> QED  BY <1>2, <1>5, <2>1, <2>2
<1> QED  BY <1>2, <1>4, <1>5

(* The configurations behind the oldest write still land.                  *)
LEMMA LandsTail ==
    ASSUME NEW S, NEW ps \in Seq(S), ps # <<>>, NEW on \in BOOLEAN, NEW off \in BOOLEAN, NEW r,
           off <=> Sets(ps, 1, r, "enable") \/ (on /\ ~Sets(ps, 1, r, "disable")),
           LandsIn(ps, on, r)
    PROVE  LandsIn(Tail(ps), off, r)
<1>1. PICK qs : qs = Tail(ps)
  OBVIOUS
<1>2. PICK m \in Nat : m = Len(ps) - 1
  OBVIOUS
<1>3. /\ \A j \in 1 .. m : qs[j] = ps[j + 1]
      /\ Len(qs) = m /\ Len(ps) = m + 1
  BY <1>1, <1>2
<1> SUFFICES ASSUME NEW j \in 1 .. m, Sets(qs, j, r, "config") PROVE OffIn(qs, off, r, j)
  BY <1>1, <1>3 DEF LandsIn
<1>4. j + 1 \in 1 .. Len(ps) /\ j \in 0 .. Len(ps) - 1
  BY <1>2, <1>3
<1>5. OffIn(ps, on, r, j + 1)
  BY <1>3, <1>4 DEF LandsIn, Sets
<1>6. OffIn(Tail(ps), off, r, j) <=> OffIn(ps, on, r, j + 1)
  BY <1>4, OffTail
<1> QED  BY <1>1, <1>5, <1>6

(* Nothing on the way: the register is as it is.                           *)
LEMMA NothingPosted ==
    ASSUME NEW on \in BOOLEAN, NEW holds \in BOOLEAN, NEW r, NEW k, NEW c
    PROVE  /\ OffIn(<<>>, on, r, Len(<<>>)) <=> ~on
           /\ CfgIn(<<>>, holds, r, k, c) <=> holds
<1>1. Len(<<>>) = 0 /\ ~\E j \in 1 .. 0 : TRUE
  OBVIOUS
<1>2. OffIn(<<>>, on, r, 0) <=> ~on
  BY <1>1 DEF OffIn
<1>3. CfgIn(<<>>, holds, r, k, c) <=> holds
  <2>1. \A j \in 1 .. Len(<<>>) : FALSE
    BY <1>1
  <2>2. (\A i \in 1 .. Len(<<>>) : ~Sets(<<>>, i, r, "config")) = TRUE
    BY <2>1
  <2> QED  BY <2>1, <2>2, Zenon DEF CfgIn
<1> QED  BY <1>1, <1>2, <1>3

(* The oldest write is a configuration that lands: the queue is disabled.  *)
LEMMA LandsNow ==
    ASSUME NEW S, NEW ps \in Seq(S), ps # <<>>, NEW on \in BOOLEAN, NEW r, LandsIn(ps, on, r),
           Sets(ps, 1, r, "config")
    PROVE  ~on
<1>1. 1 \in 1 .. Len(ps)
  OBVIOUS
<1>2. OffIn(ps, on, r, 1)
  BY <1>1 DEF LandsIn
<1>3. \A i \in 1 .. 1 : i = 1
  OBVIOUS
<1>4. ~Sets(ps, 1, r, "disable")
  BY DEF Sets
<1> QED  BY <1>2, <1>3, <1>4 DEF OffIn

-----------------------------------------------------------------------------
(* Rings and registers                                                     *)

Kinds == {"rx", "tx"}
Reg == HwRing \union {CqReg(c) : c \in HwCq}

(* None is no ring and no index.                                           *)
LEMMA Numbers ==
    /\ NRx \in Nat /\ NTx \in Nat /\ NTx >= 1
    /\ None \notin Ring /\ None \notin HwCq /\ None \notin Nat
    /\ Ring \subseteq Nat /\ HwCq \subseteq Nat
    /\ \A k \in Ring : Kind(k) \in Kinds
    /\ \A q \in Kinds : Count(q) \in Nat
<1>1. NRx \in Nat /\ NTx \in Nat /\ NTx >= 1 /\ None \notin Nat
  BY LifecycleAssumption, NoneAssumption
<1>2. Ring \subseteq Nat /\ HwCq \subseteq Nat
  BY <1>1 DEF Ring, HwCq
<1>3. \A k \in Ring : Kind(k) \in Kinds
  BY DEF Kind, Kinds
<1>4. \A q \in Kinds : Count(q) \in Nat
  BY <1>1 DEF Count, Kinds
<1> QED  BY <1>1, <1>2, <1>3, <1>4

(* The registers of queues, and which are the same.                        *)
LEMMA Registers ==
    /\ \A h \in HwRing : h[1] \in Kinds /\ h[2] \in 0 .. Count(h[1]) - 1 /\ h = <<h[1], h[2]>>
    /\ \A q \in Kinds : \A i \in 0 .. Count(q) - 1 : <<q, i>> \in HwRing
    /\ \A c \in HwCq : CqReg(c) \in Reg /\ CqReg(c) \notin HwRing /\ CqReg(c)[2] = c
    /\ \A c \in HwCq : CqReg(c)[1] = "cq"
    /\ \A h \in HwRing : h \in Reg /\ h[1] # "cq"
    /\ EqReg \notin Reg /\ EqReg[1] # "cq"
    /\ \A r \in Reg : r \notin HwRing => r[2] \in HwCq /\ r = CqReg(r[2])
<1>1. \A h \in HwRing : h[1] \in Kinds /\ h[2] \in 0 .. Count(h[1]) - 1 /\ h = <<h[1], h[2]>>
  BY DEF HwRing, Kinds, Count
<1>2. \A q \in Kinds : \A i \in 0 .. Count(q) - 1 : <<q, i>> \in HwRing
  BY DEF HwRing, Kinds, Count
<1>3. \A h \in HwRing : h \in Reg /\ h[1] # "cq" /\ h[1] # "eq"
  BY <1>1 DEF Kinds, Reg
<1>4. \A c \in HwCq : CqReg(c) \in Reg /\ CqReg(c) \notin HwRing /\ CqReg(c)[2] = c /\ CqReg(c)[1] = "cq"
  BY <1>3 DEF Reg, CqReg
<1>5. EqReg \notin Reg /\ EqReg[1] # "cq"
  BY <1>3 DEF Reg, CqReg, EqReg
<1>6. \A r \in Reg : r \notin HwRing => r[2] \in HwCq /\ r = CqReg(r[2])
  BY <1>4 DEF Reg
<1> QED  BY <1>1, <1>2, <1>3, <1>4, <1>5, <1>6

(* The transmit rings are those opened after the receive rings.            *)
LEMMA TxRings ==
    /\ TxRing \subseteq Ring /\ \A k \in TxRing : Kind(k) = "tx"
    /\ NRx + 1 \in TxRing
    /\ \A k \in Ring : k \notin TxRing => Kind(k) = "rx"
BY Numbers DEF TxRing, Ring, Kind

-----------------------------------------------------------------------------
(* Where the coroutine stands: the label of a step says what it does.      *)
Label(s) == CASE s.op = "write" -> s.reg
              [] s.op = "disable" -> "off"
              [] OTHER -> s.op

Writes == {"eqConfig", "eqEnable", "eqArm", "cqConfig", "cqEnable", "cqArm",
           "config", "enable", "disable"}
Calls == {"openEq", "openCq", "openRing", "drain", "up", "down", "freeBuf",
          "unlinkRing", "closeCq"}
ProgramStep ==
    [op : {"write"}, ring : Ring \union {None}, reg : Writes]
    \union [op : {"disable"}, ring : {None}, reg : Reg \union {EqReg}]
    \union [op : Calls, ring : Ring \union {None}, reg : {None}]

(* Steps of no ring; those of a ring that is opened or closed, whose       *)
(* completion queue only (Half) or both of whose queues (Whole) are open   *)
(* when the step is taken; and what follows on what.                       *)
Free == {"openEq", "eqConfig", "eqEnable", "eqArm", "drain", "up", "down", "freeBuf"}
Half == {"cqConfig", "cqEnable", "cqArm", "openRing", "closeCq"}
Whole == {"config", "enable", "disable", "unlinkRing"}
Closing == {"disable", "unlinkRing", "closeCq"}
Chain == {<<"openCq", "cqConfig">>, <<"cqConfig", "cqEnable">>, <<"cqEnable", "cqArm">>,
          <<"cqArm", "openRing">>, <<"openRing", "config">>, <<"config", "enable">>,
          <<"disable", "unlinkRing">>, <<"unlinkRing", "closeCq">>}

StepOK(s) ==
    /\ Label(s) \in Half \union Whole \union {"openCq"} => s.ring \in Ring
    /\ Label(s) \in Closing => s.ring \in TxRing

Follows(s, t) ==
    \/ <<Label(s), Label(t)>> \in Chain /\ t.ring = s.ring
    \/ Label(s) \in Free \union {"off", "enable"} /\ Label(t) \in Free \union {"openCq"}
    \/ Label(s) = "off" /\ Label(t) = "off"

CanEnd(s) == Label(s) \in Free \union {"off", "enable", "closeCq"}

Opens(s, k) == Label(s) = "openCq" /\ s.ring = k
Disables(s, r) == Label(s) = "off" /\ s.reg = r

(* A program that opens or closes one ring at a time, and opens none twice.*)
Orderly(p) ==
    /\ p \in Seq(ProgramStep)
    /\ \A j \in 1 .. Len(p) : StepOK(p[j])
    /\ \A j \in 1 .. Len(p) - 1 : Follows(p[j], p[j + 1])
    /\ p # <<>> => CanEnd(p[Len(p)])
    /\ \A i, j \in 1 .. Len(p) : \A k \in Ring : Opens(p[i], k) /\ Opens(p[j], k) => i = j

At(l, k) == program # <<>> /\ Label(Head(program)) = l /\ Head(program).ring = k
AtOff == program # <<>> /\ Label(Head(program)) = "off"
ToOpen(k) == \E j \in 1 .. Len(program) : Opens(program[j], k)
ToDisable(r) == \E j \in 1 .. Len(program) : Disables(program[j], r)

(* What a label says of the step.                                          *)
LEMMA Labels ==
    ASSUME NEW s \in ProgramStep
    PROVE  /\ Label(s) \in Writes => s.op = "write" /\ s.reg = Label(s)
           /\ Label(s) = "off" => s.op = "disable" /\ s.reg \in Reg \union {EqReg}
           /\ Label(s) \in Calls => s.op = Label(s)
           /\ Label(s) \in Writes \union {"off"} \union Calls
           /\ s.op = "write" => Label(s) = s.reg /\ s.reg \in Writes
           /\ s.op = "disable" => Label(s) = "off"
           /\ s.op \in Calls => Label(s) = s.op
BY DEF Label, ProgramStep, Writes, Calls

(* The first step of a program is done.                                    *)
LEMMA TailOrderly ==
    ASSUME NEW p, Orderly(p), p # <<>>
    PROVE  /\ Orderly(Tail(p))
           /\ \/ Tail(p) = <<>> /\ CanEnd(Head(p))
              \/ Tail(p) # <<>> /\ Follows(Head(p), Head(Tail(p)))
           /\ \A j \in 1 .. Len(Tail(p)) : j + 1 \in 1 .. Len(p) /\ Tail(p)[j] = p[j + 1]
           /\ \A j \in 1 .. Len(p) : j # 1 => j - 1 \in 1 .. Len(Tail(p)) /\ Tail(p)[j - 1] = p[j]
           /\ Head(p) = p[1] /\ 1 \in 1 .. Len(p) /\ StepOK(Head(p)) /\ Head(p) \in ProgramStep
<1>1. PICK q : q = Tail(p)
  OBVIOUS
<1>2. p \in Seq(ProgramStep)
  BY DEF Orderly
<1>3. PICK m \in Nat : m = Len(p) - 1
  BY <1>2
<1>4. /\ Len(p) = m + 1 /\ Len(q) = m
      /\ q \in Seq(ProgramStep)
      /\ \A j \in 1 .. m : q[j] = p[j + 1] /\ j + 1 \in 1 .. m + 1
      /\ Head(p) = p[1] /\ Head(p) \in ProgramStep
  BY <1>1, <1>2, <1>3
<1>5. \A j \in 1 .. m + 1 : j # 1 => j - 1 \in 1 .. m /\ q[j - 1] = p[j]
  BY <1>4
<1>6. 1 \in 1 .. m + 1 /\ StepOK(Head(p))
  BY <1>3, <1>4 DEF Orderly
<1>7. \/ q = <<>> /\ CanEnd(Head(p))
      \/ q # <<>> /\ Follows(Head(p), Head(q))
  <2>1. CASE m = 0
    <3>1. q = <<>> /\ CanEnd(p[1])
      BY <1>2, <1>3, <1>4, <2>1 DEF Orderly
    <3> QED  BY <1>4, <3>1
  <2>2. CASE m # 0
    <3>1. q # <<>> /\ Head(q) = p[2] /\ 1 \in 1 .. Len(p) - 1 /\ 1 + 1 = 2
      BY <1>3, <1>4, <2>2
    <3>2. Follows(p[1], p[1 + 1])
      BY <3>1 DEF Orderly
    <3> QED  BY <1>4, <3>1, <3>2
  <2> QED  BY <2>1, <2>2
<1>8. Orderly(q)
  <2>1. \A j \in 1 .. m : StepOK(q[j])
    BY <1>4 DEF Orderly
  <2>2. \A j \in 1 .. m - 1 : Follows(q[j], q[j + 1])
    <3>1. \A j \in 1 .. m - 1 : j \in 1 .. m /\ j + 1 \in 1 .. m /\ j + 1 \in 1 .. Len(p) - 1
      BY <1>3, <1>4
    <3> QED  BY <1>4, <3>1 DEF Orderly
  <2>3. q # <<>> => CanEnd(q[m])
    <3>1. q # <<>> => m \in 1 .. m
      BY <1>3, <1>4
    <3> QED  BY <1>2, <1>3, <1>4, <3>1 DEF Orderly
  <2>4. \A i, j \in 1 .. m : \A k \in Ring : Opens(q[i], k) /\ Opens(q[j], k) => i = j
    <3> SUFFICES ASSUME NEW i \in 1 .. m, NEW j \in 1 .. m, NEW k \in Ring,
                        Opens(q[i], k), Opens(q[j], k)
                 PROVE  i = j
      OBVIOUS
    <3>1. Opens(p[i + 1], k) /\ Opens(p[j + 1], k)
      BY <1>4
    <3>2. i + 1 = j + 1
      BY <1>4, <3>1 DEF Orderly
    <3> QED  BY <3>2
  <2> QED  BY <1>4, <2>1, <2>2, <2>3, <2>4 DEF Orderly
<1> QED  BY <1>1, <1>4, <1>5, <1>6, <1>7, <1>8

(* What a program has still to do when its first step is done.             *)
LEMMA Advances ==
    ASSUME Orderly(program), program # <<>>, program' = Tail(program)
    PROVE  /\ Orderly(program)'
           /\ \A k : ToOpen(k)' => ToOpen(k)
           /\ \A k \in Ring : At("openCq", k) => ToOpen(k) /\ ~ToOpen(k)'
           /\ \A r : ToDisable(r)' => ToDisable(r)
           /\ \A r : ToDisable(r) => ToDisable(r)' \/ Disables(Head(program), r)
           /\ AtOff' => AtOff
<1>1. PICK p : p = program
  OBVIOUS
<1>2. PICK q : q = Tail(p)
  OBVIOUS
<1>3. program' = q
  BY <1>1, <1>2
<1>4. /\ Orderly(q)
      /\ \/ q = <<>> /\ CanEnd(Head(p))
         \/ q # <<>> /\ Follows(Head(p), Head(q))
      /\ \A j \in 1 .. Len(q) : j + 1 \in 1 .. Len(p) /\ q[j] = p[j + 1]
      /\ \A j \in 1 .. Len(p) : j # 1 => j - 1 \in 1 .. Len(q) /\ q[j - 1] = p[j]
      /\ Head(p) = p[1] /\ 1 \in 1 .. Len(p)
  BY <1>1, <1>2, TailOrderly
<1>5. Orderly(program)'
  BY <1>3, <1>4
<1>6. \A k : ToOpen(k)' => ToOpen(k)
  BY <1>1, <1>3, <1>4 DEF ToOpen
<1>7. \A r : ToDisable(r)' => ToDisable(r)
  BY <1>1, <1>3, <1>4 DEF ToDisable
<1>8. \A r : ToDisable(r) => ToDisable(r)' \/ Disables(Head(program), r)
  BY <1>1, <1>3, <1>4 DEF ToDisable
<1>9. ASSUME NEW k \in Ring, At("openCq", k) PROVE ToOpen(k) /\ ~ToOpen(k)'
  <2>1. Opens(p[1], k)
    BY <1>1, <1>4, <1>9 DEF At, Opens
  <2>2. ToOpen(k)
    BY <1>1, <1>4, <2>1 DEF ToOpen
  <2>3. ASSUME NEW j \in 1 .. Len(q), Opens(q[j], k) PROVE FALSE
    <3>1. j + 1 \in 1 .. Len(p) /\ Opens(p[j + 1], k)
      BY <1>4, <2>3
    <3>2. j + 1 = 1
      BY <1>1, <1>4, <2>1, <3>1 DEF Orderly
    <3> QED  BY <2>3, <3>2
  <2> QED  BY <1>3, <2>2, <2>3 DEF ToOpen
<1>10. AtOff' => AtOff
  <2> SUFFICES ASSUME AtOff' PROVE AtOff
    OBVIOUS
  <2>1. q # <<>> /\ Label(Head(q)) = "off"
    BY <1>3 DEF AtOff
  <2>2. Follows(Head(p), Head(q))
    BY <1>4, <2>1
  <2>3. Label(Head(p)) = "off"
    BY <2>1, <2>2 DEF Follows, Chain, Free
  <2> QED  BY <1>1, <2>3 DEF AtOff
<1> QED  BY <1>5, <1>6, <1>7, <1>8, <1>9, <1>10

(* The coroutine is at one step, and its ring is a ring.                   *)
LEMMA AtOne ==
    ASSUME Orderly(program)
    PROVE  /\ \A l, m, j, k : At(l, j) /\ At(m, k) => l = m /\ j = k
           /\ \A l \in Half \union Whole \union {"openCq"} : \A k : At(l, k) => k \in Ring
           /\ \A l \in Closing : \A k : At(l, k) => k \in TxRing
           /\ AtOff => \A l \in Half \union Whole \union {"openCq"} : \A k : ~At(l, k)
<1>1. program # <<>> => StepOK(Head(program))
  BY TailOrderly
<1>2. \A l \in Half \union Whole \union {"openCq"} : l # "off"
  BY DEF Half, Whole
<1>3. AtOff => \A l \in Half \union Whole \union {"openCq"} : \A k : ~At(l, k)
  BY <1>2 DEF AtOff, At
<1>4. /\ \A l \in Half \union Whole \union {"openCq"} : \A k : At(l, k) => k \in Ring
      /\ \A l \in Closing : \A k : At(l, k) => k \in TxRing
  BY <1>1 DEF At, StepOK
<1>5. \A l, m, j, k : At(l, j) /\ At(m, k) => l = m /\ j = k
  BY DEF At
<1> QED  BY <1>3, <1>4, <1>5

(* Each step of a ring is followed by the next one of the same ring.       *)
Goes(m, k) == \A n \in Half \union Whole : \A j : At(n, j)' <=> n = m /\ j = k
Leaves == \A n \in Half \union Whole : \A j : ~At(n, j)'

(* The coroutine goes on to the next step of the same ring.                *)
LEMMA Chained ==
    ASSUME Orderly(program), program # <<>>, program' = Tail(program),
           NEW l, NEW k, At(l, k), NEW m, <<l, m>> \in Chain,
           \A n : <<l, n>> \in Chain => n = m,
           l \notin Free \union {"off", "enable", "closeCq"}
    PROVE  Goes(m, k)
<1>1. PICK s : s = Head(program)
  OBVIOUS
<1>2. Label(s) = l /\ s.ring = k
  BY <1>1 DEF At
<1>3. ~CanEnd(s)
  BY <1>2 DEF CanEnd
<1>4. PICK t : t = Head(program')
  OBVIOUS
<1>5. program' # <<>> /\ Follows(s, t)
  BY <1>1, <1>3, <1>4, TailOrderly
<1>6. t.ring = k /\ Label(t) = m
  BY <1>2, <1>5 DEF Follows
<1>7. \A n, j : At(n, j)' <=> n = m /\ j = k
  BY <1>4, <1>5, <1>6 DEF At
<1> QED  BY <1>7 DEF Goes

(* After a step that ends its ring's, no ring is being opened or closed.   *)
LEMMA Unchained ==
    ASSUME Orderly(program), program # <<>>, program' = Tail(program),
           Label(Head(program)) \in Free \union {"off", "enable", "closeCq"}
    PROVE  Leaves
<1>1. PICK s : s = Head(program)
  OBVIOUS
<1>2. PICK t : t = Head(program')
  OBVIOUS
<1>3. program' = <<>> \/ Follows(s, t)
  BY <1>1, <1>2, TailOrderly
<1>4. ASSUME program' # <<>> PROVE Label(t) \notin Half \union Whole
  <2>1. ~\E n : <<Label(s), n>> \in Chain
    BY <1>1 DEF Chain, Free
  <2>2. Label(t) \in Free \union {"openCq", "off"}
    BY <1>3, <1>4, <2>1 DEF Follows
  <2> QED  BY <2>2 DEF Free, Half, Whole
<1>5. \A n \in Half \union Whole : \A j : ~At(n, j)'
  BY <1>2, <1>4 DEF At
<1> QED  BY <1>5 DEF Leaves

(* The coroutine's next step, step by step.                                *)
LEMMA NextAt ==
    ASSUME Orderly(program), program # <<>>, program' = Tail(program), NEW k
    PROVE  /\ At("openCq", k) => Goes("cqConfig", k)
           /\ At("cqConfig", k) => Goes("cqEnable", k)
           /\ At("cqEnable", k) => Goes("cqArm", k)
           /\ At("cqArm", k) => Goes("openRing", k)
           /\ At("openRing", k) => Goes("config", k)
           /\ At("config", k) => Goes("enable", k)
           /\ At("disable", k) => Goes("unlinkRing", k)
           /\ At("unlinkRing", k) => Goes("closeCq", k)
<1> DEFINE Only(l, m) == /\ <<l, m>> \in Chain /\ \A n : <<l, n>> \in Chain => n = m
                         /\ l \notin Free \union {"off", "enable", "closeCq"}
<1>1. /\ Only("openCq", "cqConfig") /\ Only("cqConfig", "cqEnable") /\ Only("cqEnable", "cqArm")
      /\ Only("cqArm", "openRing") /\ Only("openRing", "config") /\ Only("config", "enable")
      /\ Only("disable", "unlinkRing") /\ Only("unlinkRing", "closeCq")
  BY DEF Chain, Free
<1>2. \A l, m : Only(l, m) /\ At(l, k) => Goes(m, k)
  BY Chained
<1> HIDE DEF Only
<1> QED  BY <1>1, <1>2

-----------------------------------------------------------------------------
(* The registers of queues as they are and as they will be                 *)
HwOn(r) == IF r \in HwRing THEN hwRing[r].on ELSE hwCq[r[2]].on
Holds(r, k, c) == IF r \in HwRing THEN hwRing[r].cfg = k /\ hwRing[r].cq = c
                                  ELSE hwCq[r[2]].cfg = k /\ c = None

OffEnd(r) == OffIn(posted, HwOn(r), r, Len(posted))
CfgEnd(r, k, c) == CfgIn(posted, Holds(r, k, c), r, k, c)
Lands == \A r \in Reg : LandsIn(posted, HwOn(r), r)

(* Register writes as the driver posts them.                               *)
Write == [reg : Reg \union {EqReg}, do : {"enable", "disable", "config", "arm", "read"},
          cfg : Ring \union {None, 0}, cq : HwCq \union {None}]
WriteOK(w) ==
    /\ w.reg \in HwRing => w.do \in {"enable", "disable", "config"}
    /\ w.reg \in HwRing /\ w.do = "config" => w.cfg \in Ring /\ w.cq \in HwCq
    /\ w.reg # EqReg => w.do # "read"
    /\ w.reg \in Reg \ HwRing /\ w.do = "config" => w.cfg \in Ring /\ w.cq = None

HwTypes ==
    /\ posted \in Seq(Write) /\ \A j \in 1 .. Len(posted) : WriteOK(posted[j])
    /\ hwRing \in [HwRing -> [on : BOOLEAN, cfg : Ring \union {None}, cq : HwCq \union {None}]]
    /\ hwCq \in [HwCq -> [on : BOOLEAN, cfg : Ring \union {None}, armed : BOOLEAN, unread : Nat]]
    /\ events \in Seq(HwCq)
    /\ handler.pc = "cqArm" => handler.cq \in HwCq

(* A register is enabled or not, and configured or not.                    *)
LEMMA RegTypes ==
    ASSUME HwTypes
    PROVE  /\ \A r \in Reg : HwOn(r) \in BOOLEAN
           /\ \A r, k, c : Holds(r, k, c) \in BOOLEAN
           /\ \A h \in HwRing : /\ HwOn(h) = hwRing[h].on
                                /\ \A k, c : Holds(h, k, c) <=> hwRing[h].cfg = k /\ hwRing[h].cq = c
           /\ \A b \in HwCq : /\ HwOn(CqReg(b)) = hwCq[b].on
                              /\ \A k : Holds(CqReg(b), k, None) <=> hwCq[b].cfg = k
<1>1. ASSUME NEW r \in Reg PROVE HwOn(r) \in BOOLEAN
  <2>1. CASE r \in HwRing
    BY <2>1 DEF HwOn, HwTypes
  <2>2. CASE r \notin HwRing
    <3>1. r[2] \in HwCq
      BY <2>2, Registers
    <3> QED  BY <2>2, <3>1 DEF HwOn, HwTypes
  <2> QED  BY <2>1, <2>2
<1>2. ASSUME NEW r, NEW k, NEW c PROVE Holds(r, k, c) \in BOOLEAN
  <2>1. CASE r \in HwRing
    BY <2>1 DEF Holds
  <2>2. CASE r \notin HwRing
    BY <2>2 DEF Holds
  <2> QED  BY <2>1, <2>2
<1>3. ASSUME NEW h \in HwRing
      PROVE  HwOn(h) = hwRing[h].on
             /\ \A k, c : Holds(h, k, c) <=> hwRing[h].cfg = k /\ hwRing[h].cq = c
  BY DEF HwOn, Holds
<1>4. ASSUME NEW b \in HwCq
      PROVE  HwOn(CqReg(b)) = hwCq[b].on /\ \A k : Holds(CqReg(b), k, None) <=> hwCq[b].cfg = k
  BY Registers DEF HwOn, Holds
<1> QED  BY <1>1, <1>2, <1>3, <1>4

(* What holds of the registers of queues when nothing is posted.           *)
RegsSame ==
    /\ \A r \in Reg : OffEnd(r)' <=> OffEnd(r)
    /\ \A r \in Reg : \A k, c : CfgEnd(r, k, c)' <=> CfgEnd(r, k, c)

(* Registers that stay, with the writes on their way to them.              *)
LEMMA RegsUnchanged ==
    ASSUME posted' = posted, hwRing' = hwRing,
           \A c \in HwCq : hwCq'[c].on = hwCq[c].on /\ hwCq'[c].cfg = hwCq[c].cfg
    PROVE  RegsSame /\ (Lands => Lands')
<1>1. ASSUME NEW r \in Reg PROVE HwOn(r)' = HwOn(r) /\ \A k, c : Holds(r, k, c)' = Holds(r, k, c)
  <2>1. CASE r \in HwRing
    BY <2>1 DEF HwOn, Holds
  <2>2. CASE r \notin HwRing
    <3>1. r[2] \in HwCq
      BY <2>2, Registers
    <3> QED  BY <2>2, <3>1 DEF HwOn, Holds
  <2> QED  BY <2>1, <2>2
<1>2. \A r \in Reg : OffEnd(r)' <=> OffEnd(r)
  BY <1>1 DEF OffEnd
<1>3. \A r \in Reg : \A k, c : CfgEnd(r, k, c)' <=> CfgEnd(r, k, c)
  BY <1>1 DEF CfgEnd
<1>4. Lands => Lands'
  BY <1>1 DEF Lands
<1> QED  BY <1>2, <1>3, <1>4 DEF RegsSame

(* A write of do to r0 is posted.                                          *)
RegsPosted(r0, do, k0, c0) ==
    /\ \A r \in Reg : r # r0 \/ do \notin {"enable", "disable"} => (OffEnd(r)' <=> OffEnd(r))
    /\ \A r \in Reg : r = r0 /\ do = "disable" => OffEnd(r)'
    /\ \A r \in Reg : r = r0 /\ do = "enable" => ~OffEnd(r)'
    /\ \A r \in Reg : r # r0 \/ do # "config" => \A k, c : CfgEnd(r, k, c)' <=> CfgEnd(r, k, c)
    /\ \A r \in Reg : r = r0 /\ do = "config" => CfgEnd(r, k0, c0)'

(* What a posted write makes of the registers once all have arrived.       *)
LEMMA RegsAppended ==
    ASSUME HwTypes, NEW w \in Write, posted' = Append(posted, w), UNCHANGED <<hwRing, hwCq>>
    PROVE  /\ RegsPosted(w.reg, w.do, w.cfg, w.cq)
           /\ Lands /\ (w.do = "config" /\ w.reg \in Reg => OffEnd(w.reg)) => Lands'
<1>1. PICK ps \in Seq(Write) : ps = posted
  BY DEF HwTypes
<1>2. PICK m \in Nat : m = Len(ps)
  OBVIOUS
<1>3. posted' = Append(ps, w) /\ Len(posted') = m + 1
  BY <1>1, <1>2
<1>4. ASSUME NEW r \in Reg
      PROVE  \E on \in BOOLEAN : on = HwOn(r) /\ HwOn(r)' = on
  <2>1. HwOn(r) \in BOOLEAN
    BY RegTypes
  <2>2. HwOn(r)' = HwOn(r)
    BY DEF HwOn
  <2> QED  BY <2>1, <2>2
<1>5. ASSUME NEW r \in Reg
      PROVE  /\ r # w.reg \/ w.do \notin {"enable", "disable"} => (OffEnd(r)' <=> OffEnd(r))
             /\ r = w.reg /\ w.do = "disable" => OffEnd(r)'
             /\ r = w.reg /\ w.do = "enable" => ~OffEnd(r)'
  <2>1. PICK on \in BOOLEAN : on = HwOn(r) /\ HwOn(r)' = on
    BY <1>4
  <2>2. OffEnd(r) <=> OffIn(ps, on, r, m)
    BY <1>1, <1>2, <2>1 DEF OffEnd
  <2>3. OffEnd(r)' <=> OffIn(Append(ps, w), on, r, m + 1)
    BY <1>3, <2>1 DEF OffEnd
  <2>4. /\ w.reg = r /\ w.do = "disable" => OffIn(Append(ps, w), on, r, m + 1)
        /\ w.reg = r /\ w.do = "enable" => ~OffIn(Append(ps, w), on, r, m + 1)
        /\ ~(w.reg = r /\ w.do \in {"enable", "disable"}) =>
                (OffIn(Append(ps, w), on, r, m + 1) <=> OffIn(ps, on, r, m))
    BY <1>2, OffAppend
  <2> QED  BY <2>2, <2>3, <2>4
<1>6. ASSUME NEW r \in Reg, NEW k, NEW c
      PROVE  /\ r # w.reg \/ w.do # "config" => (CfgEnd(r, k, c)' <=> CfgEnd(r, k, c))
             /\ r = w.reg /\ w.do = "config" /\ k = w.cfg /\ c = w.cq => CfgEnd(r, k, c)'
  <2>1. PICK holds \in BOOLEAN : holds = Holds(r, k, c)
    BY RegTypes
  <2>2. Holds(r, k, c)' = holds
    BY <2>1 DEF Holds
  <2>3. CfgEnd(r, k, c) <=> CfgIn(ps, holds, r, k, c)
    BY <1>1, <2>1 DEF CfgEnd
  <2>4. CfgEnd(r, k, c)' <=> CfgIn(Append(ps, w), holds, r, k, c)
    BY <1>3, <2>2 DEF CfgEnd
  <2>5. /\ w.reg = r /\ w.do = "config" =>
                (CfgIn(Append(ps, w), holds, r, k, c) <=> w.cfg = k /\ w.cq = c)
        /\ ~(w.reg = r /\ w.do = "config") =>
                (CfgIn(Append(ps, w), holds, r, k, c) <=> CfgIn(ps, holds, r, k, c))
    BY CfgAppend
  <2> QED  BY <2>3, <2>4, <2>5
<1>7. ASSUME Lands, w.do = "config" /\ w.reg \in Reg => OffEnd(w.reg), NEW r \in Reg
      PROVE  LandsIn(posted, HwOn(r), r)'
  <2>1. PICK on \in BOOLEAN : on = HwOn(r) /\ HwOn(r)' = on
    BY <1>4
  <2>2. LandsIn(ps, on, r)
    BY <1>1, <1>7, <2>1 DEF Lands
  <2>3. w.reg = r /\ w.do = "config" => OffIn(ps, on, r, Len(ps))
    BY <1>1, <1>7, <2>1 DEF OffEnd
  <2>4. LandsIn(Append(ps, w), on, r)
    BY <2>2, <2>3, LandsAppend
  <2> QED  BY <1>3, <2>1, <2>4
<1>8. Lands /\ (w.do = "config" /\ w.reg \in Reg => OffEnd(w.reg)) => Lands'
  BY <1>7 DEF Lands
<1> QED  BY <1>5, <1>6, <1>8 DEF RegsPosted

(* The elements of a list to which one is appended.                        *)
LEMMA AppendSet ==
    ASSUME NEW S, NEW e \in Seq(S), NEW c \in S
    PROVE  Append(e, c) \in Seq(S) /\ ToSet(Append(e, c)) = ToSet(e) \union {c}
<1>1. /\ Append(e, c) \in Seq(S) /\ DOMAIN Append(e, c) = 1 .. Len(e) + 1
      /\ \A j \in 1 .. Len(e) : Append(e, c)[j] = e[j]
      /\ Append(e, c)[Len(e) + 1] = c
      /\ DOMAIN e = 1 .. Len(e) /\ Len(e) \in Nat
  OBVIOUS
<1>2. \A j : j \in 1 .. Len(e) + 1 <=> j \in 1 .. Len(e) \/ j = Len(e) + 1
  BY <1>1
<1> QED  BY <1>1, <1>2 DEF ToSet

(* The elements of a list whose first is taken.                            *)
LEMMA TailSet ==
    ASSUME NEW S, NEW e \in Seq(S), e # <<>>
    PROVE  /\ Tail(e) \in Seq(S) /\ Head(e) \in S
           /\ ToSet(e) = ToSet(Tail(e)) \union {Head(e)}
<1>1. /\ Tail(e) \in Seq(S) /\ DOMAIN Tail(e) = 1 .. Len(e) - 1
      /\ \A j \in 1 .. Len(e) - 1 : Tail(e)[j] = e[j + 1] /\ j + 1 \in 1 .. Len(e)
      /\ Head(e) = e[1] /\ 1 \in 1 .. Len(e)
      /\ DOMAIN e = 1 .. Len(e) /\ Len(e) \in Nat
  OBVIOUS
<1>2. \A j \in 1 .. Len(e) : j = 1 \/ (j - 1 \in 1 .. Len(e) - 1 /\ (j - 1) + 1 = j)
  BY <1>1
<1>3. ASSUME NEW x \in ToSet(e) PROVE x \in ToSet(Tail(e)) \union {Head(e)}
  <2>1. PICK j \in 1 .. Len(e) : x = e[j]
    BY <1>1 DEF ToSet
  <2>2. CASE j = 1
    BY <1>1, <2>1, <2>2
  <2>3. CASE j # 1
    <3>1. Tail(e)[j - 1] = x /\ j - 1 \in DOMAIN Tail(e)
      BY <1>1, <1>2, <2>1, <2>3
    <3> QED  BY <3>1 DEF ToSet
  <2> QED  BY <2>2, <2>3
<1>4. ToSet(Tail(e)) \union {Head(e)} \subseteq ToSet(e)
  BY <1>1 DEF ToSet
<1> QED  BY <1>1, <1>3, <1>4

(* A write arrives at a transmit or receive queue.                         *)
LEMMA RingArrives ==
    ASSUME HwTypes, NEW w \in Write, WriteOK(w), RingWrite(w)
    PROVE  /\ hwRing' \in [HwRing -> [on : BOOLEAN, cfg : Ring \union {None}, cq : HwCq \union {None}]]
           /\ \A h \in HwRing : h # w.reg => hwRing'[h] = hwRing[h]
           /\ w.do = "enable" => /\ hwRing'[w.reg].on
                                 /\ hwRing'[w.reg].cfg = hwRing[w.reg].cfg
                                 /\ hwRing'[w.reg].cq = hwRing[w.reg].cq
           /\ w.do = "disable" => /\ ~hwRing'[w.reg].on
                                  /\ hwRing'[w.reg].cfg = hwRing[w.reg].cfg
                                  /\ hwRing'[w.reg].cq = hwRing[w.reg].cq
           /\ w.do = "config" => hwRing'[w.reg].on = hwRing[w.reg].on
           /\ w.do = "config" /\ ~hwRing[w.reg].on =>
                /\ hwRing'[w.reg].cfg = w.cfg
                /\ hwRing'[w.reg].cq = w.cq
           /\ w.do = "config" /\ hwRing[w.reg].on => hwRing'[w.reg] = hwRing[w.reg]
           /\ w.reg \in HwRing /\ w.do \in {"enable", "disable", "config"}
<1> DEFINE Q == [on : BOOLEAN, cfg : Ring \union {None}, cq : HwCq \union {None}]
<1>1. w.reg \in HwRing /\ w.do \in {"enable", "disable", "config"}
  BY DEF RingWrite, WriteOK
<1>2. PICK q \in Q : q = hwRing[w.reg]
  BY <1>1 DEF HwTypes
<1>3. w.do = "config" => w.cfg \in Ring /\ w.cq \in HwCq
  BY <1>1 DEF WriteOK
<1>4. PICK n : n = CASE w.do = "enable" -> [q EXCEPT !.on = TRUE]
                     [] w.do = "disable" -> [q EXCEPT !.on = FALSE]
                     [] w.do = "config" ->
                           [Configured(q, w) EXCEPT !.cq = IF hwRing[w.reg].on THEN @ ELSE w.cq]
  OBVIOUS
<1>5. hwRing' = [hwRing EXCEPT ![w.reg] = n]
  BY <1>2, <1>4 DEF RingWrite
<1>6. w.do = "enable" => n = [q EXCEPT !.on = TRUE]
  BY <1>4
<1>7. w.do = "disable" => n = [q EXCEPT !.on = FALSE]
  BY <1>4
<1>8. w.do = "config" => n = [Configured(q, w) EXCEPT !.cq = IF q.on THEN @ ELSE w.cq]
  BY <1>2, <1>4
<1>9. w.do = "config" /\ q.on => n = q
  <2> SUFFICES ASSUME w.do = "config", q.on PROVE n = q
    OBVIOUS
  <2>1. n = [q EXCEPT !.cq = q.cq]
    BY <1>8 DEF Configured
  <2> QED  BY <2>1
<1>10. w.do = "config" /\ ~q.on => n \in Q /\ n.on = q.on /\ n.cfg = w.cfg /\ n.cq = w.cq
  <2> SUFFICES ASSUME w.do = "config", ~q.on
               PROVE  n \in Q /\ n.on = q.on /\ n.cfg = w.cfg /\ n.cq = w.cq
    OBVIOUS
  <2>1. n = [[q EXCEPT !.cfg = w.cfg] EXCEPT !.cq = w.cq]
    BY <1>8 DEF Configured
  <2> QED  BY <1>3, <2>1
<1>11. n \in Q
  BY <1>1, <1>6, <1>7, <1>9, <1>10
<1>12. hwRing' \in [HwRing -> Q] /\ hwRing'[w.reg] = n /\ \A h \in HwRing : h # w.reg => hwRing'[h] = hwRing[h]
  BY <1>1, <1>5, <1>11 DEF HwTypes
<1>13. w.do = "enable" => n.on /\ n.cfg = q.cfg /\ n.cq = q.cq
  BY <1>6
<1>14. w.do = "disable" => ~n.on /\ n.cfg = q.cfg /\ n.cq = q.cq
  BY <1>7
<1> QED  BY <1>1, <1>2, <1>9, <1>10, <1>12, <1>13, <1>14

(* A write arrives at a completion queue.                                  *)
LEMMA CqArrives ==
    ASSUME HwTypes, NEW w \in Write, WriteOK(w), CqWrite(w), NEW c, c = w.reg[2]
    PROVE  /\ w.reg = CqReg(c) /\ c \in HwCq /\ w.reg \in Reg \ HwRing
           /\ hwCq' \in [HwCq -> [on : BOOLEAN, cfg : Ring \union {None}, armed : BOOLEAN, unread : Nat]]
           /\ events' \in Seq(HwCq)
           /\ \A b \in HwCq : b # c => hwCq'[b] = hwCq[b]
           /\ hwCq'[c].on <=> w.do = "enable" \/ (hwCq[c].on /\ w.do # "disable")
           /\ w.do = "config" /\ ~hwCq[c].on => hwCq'[c].cfg = w.cfg
           /\ w.do # "config" => hwCq'[c].cfg = hwCq[c].cfg
           /\ hwCq'[c].unread > 0 => hwCq[c].unread > 0
           /\ \A b \in ToSet(events') : b \in ToSet(events) \/ (b = c /\ hwCq[c].unread > 0)
<1> DEFINE Q == [on : BOOLEAN, cfg : Ring \union {None}, armed : BOOLEAN, unread : Nat]
<1>1. w.reg \in Reg /\ w.reg \notin HwRing /\ w.reg # EqReg
  <2>1. w.reg[1] = "cq"
    BY DEF CqWrite
  <2> QED  BY <2>1, Registers DEF Write
<1>2. w.reg = CqReg(c) /\ c \in HwCq
  BY <1>1, Registers
<1>3. w.do \in {"enable", "disable", "config", "arm"}
  BY <1>1 DEF Write, WriteOK
<1>4. w.do = "config" => w.cfg \in Ring
  BY <1>1 DEF WriteOK
<1>5. PICK q \in Q : q = hwCq[c]
  BY <1>2 DEF HwTypes
<1>6. PICK raises \in BOOLEAN : raises <=> q.on /\ q.unread > 0
  OBVIOUS
<1>7. PICK n : n = CASE w.do = "enable" -> [q EXCEPT !.on = TRUE]
                     [] w.do = "disable" -> [q EXCEPT !.on = FALSE]
                     [] w.do = "config" -> [Configured(q, w) EXCEPT !.unread = IF q.on THEN @ ELSE 0]
                     [] w.do = "arm" -> [q EXCEPT !.armed = ~raises]
  OBVIOUS
<1>8. hwCq' = [hwCq EXCEPT ![c] = n]
  <2>1. raises = (q.on /\ q.unread > 0)
    BY <1>6
  <2> QED  BY <1>5, <1>7, <2>1 DEF CqWrite
<1>9. w.do = "enable" => n \in Q /\ n.on /\ n.cfg = q.cfg /\ n.unread = q.unread
  <2>1. w.do = "enable" => n = [q EXCEPT !.on = TRUE]
    BY <1>7
  <2> QED  BY <2>1
<1>10. w.do = "disable" => n \in Q /\ ~n.on /\ n.cfg = q.cfg /\ n.unread = q.unread
  <2>1. w.do = "disable" => n = [q EXCEPT !.on = FALSE]
    BY <1>7
  <2> QED  BY <2>1
<1>11. w.do = "arm" => n \in Q /\ n.on = q.on /\ n.cfg = q.cfg /\ n.unread = q.unread
  <2>1. w.do = "arm" => n = [q EXCEPT !.armed = ~raises]
    BY <1>7
  <2> QED  BY <2>1
<1>12. w.do = "config" /\ q.on => n \in Q /\ n.on /\ n.unread = q.unread
  <2> SUFFICES ASSUME w.do = "config", q.on PROVE n \in Q /\ n.on /\ n.unread = q.unread
    OBVIOUS
  <2>1. n = [q EXCEPT !.unread = q.unread]
    BY <1>7 DEF Configured
  <2> QED  BY <2>1
<1>13. w.do = "config" /\ ~q.on => n \in Q /\ ~n.on /\ n.cfg = w.cfg /\ n.unread = 0
  <2> SUFFICES ASSUME w.do = "config", ~q.on
               PROVE  n \in Q /\ ~n.on /\ n.cfg = w.cfg /\ n.unread = 0
    OBVIOUS
  <2>1. n = [[q EXCEPT !.cfg = w.cfg] EXCEPT !.unread = 0]
    BY <1>7 DEF Configured
  <2> QED  BY <1>4, <2>1
<1>14. n \in Q /\ (n.unread > 0 => q.unread > 0)
  BY <1>3, <1>9, <1>10, <1>11, <1>12, <1>13
<1>15. hwCq' \in [HwCq -> Q] /\ hwCq'[c] = n /\ \A b \in HwCq : b # c => hwCq'[b] = hwCq[b]
  BY <1>2, <1>8, <1>14 DEF HwTypes
<1>16. n.on <=> w.do = "enable" \/ (q.on /\ w.do # "disable")
  BY <1>3, <1>9, <1>10, <1>11, <1>12, <1>13
<1>17. w.do # "config" => n.cfg = q.cfg
  BY <1>3, <1>9, <1>10, <1>11
<1>18. events' = events \/ (events' = Append(events, c) /\ q.unread > 0)
  BY <1>5 DEF CqWrite, RaiseEvent
<1>19. /\ events' \in Seq(HwCq)
       /\ \A b \in ToSet(events') : b \in ToSet(events) \/ (b = c /\ q.unread > 0)
  <2>1. events \in Seq(HwCq)
    BY DEF HwTypes
  <2>2. CASE events' = events
    BY <2>1, <2>2
  <2>3. CASE events' = Append(events, c) /\ q.unread > 0
    <3>1. PICK e \in Seq(HwCq) : e = events
      BY <2>1
    <3>2. Append(e, c) \in Seq(HwCq) /\ ToSet(Append(e, c)) = ToSet(e) \union {c}
      BY <1>2, <3>1, AppendSet
    <3>3. events' \in Seq(HwCq) /\ ToSet(events') = ToSet(events) \union {c}
      BY <2>3, <3>1, <3>2
    <3> QED  BY <2>3, <3>3
  <2> QED  BY <1>18, <2>2, <2>3
<1> QED  BY <1>1, <1>2, <1>5, <1>13, <1>14, <1>15, <1>16, <1>17, <1>19

(* What the arrival of a write does to the register r.                     *)
LEMMA RegArrives ==
    ASSUME HwTypes, Lands, posted # <<>>, NEW w, w = Head(posted),
           \/ RingWrite(w) \/ CqWrite(w) \/ EqWrite(w), NEW r \in Reg
    PROVE  /\ w \in Write /\ WriteOK(w) /\ w = posted[1]
           /\ HwOn(r)' <=> Sets(posted, 1, r, "enable") \/ (HwOn(r) /\ ~Sets(posted, 1, r, "disable"))
           /\ Sets(posted, 1, r, "config") =>
                \A k, c : Holds(r, k, c)' <=> w.cfg = k /\ w.cq = c
           /\ ~Sets(posted, 1, r, "config") => \A k, c : Holds(r, k, c)' <=> Holds(r, k, c)
<1>1. w \in Write /\ WriteOK(w) /\ w = posted[1]
  BY DEF HwTypes
<1>2. \A do : Sets(posted, 1, r, do) <=> w.reg = r /\ w.do = do
  BY <1>1 DEF Sets
<1>3. w.reg = r /\ w.do = "config" => ~HwOn(r)
  <2> SUFFICES ASSUME w.reg = r, w.do = "config" PROVE ~HwOn(r)
    OBVIOUS
  <2>1. PICK on \in BOOLEAN : on = HwOn(r)
    BY RegTypes
  <2>2. posted \in Seq(Write) /\ LandsIn(posted, on, r) /\ Sets(posted, 1, r, "config")
    BY <1>2, <2>1 DEF Lands, HwTypes
  <2>3. ~on
    BY <2>2, LandsNow
  <2> QED  BY <2>1, <2>3
<1>4. CASE RingWrite(w)
  <2>1. w.reg \in HwRing /\ hwCq' = hwCq
    BY <1>4 DEF RingWrite
  <2>2. CASE r \notin HwRing
    <3>1. HwOn(r)' = HwOn(r) /\ (\A k, c : Holds(r, k, c)' = Holds(r, k, c)) /\ w.reg # r
      BY <2>1, <2>2 DEF HwOn, Holds
    <3> QED  BY <1>1, <1>2, <3>1
  <2>3. CASE r \in HwRing /\ r # w.reg
    <3>1. hwRing'[r] = hwRing[r]
      BY <1>1, <1>4, <2>3, RingArrives
    <3>2. HwOn(r)' = HwOn(r) /\ \A k, c : Holds(r, k, c)' = Holds(r, k, c)
      BY <2>3, <3>1 DEF HwOn, Holds
    <3> QED  BY <1>1, <1>2, <2>3, <3>2
  <2>4. CASE r = w.reg
    <3>1. /\ HwOn(r) = hwRing[r].on /\ HwOn(r)' = hwRing'[r].on
          /\ \A k, c : Holds(r, k, c) <=> hwRing[r].cfg = k /\ hwRing[r].cq = c
          /\ \A k, c : Holds(r, k, c)' <=> hwRing'[r].cfg = k /\ hwRing'[r].cq = c
      BY <2>1, <2>4 DEF HwOn, Holds
    <3>2. /\ w.do = "enable" => /\ hwRing'[r].on
                                /\ hwRing'[r].cfg = hwRing[r].cfg
                                /\ hwRing'[r].cq = hwRing[r].cq
          /\ w.do = "disable" => /\ ~hwRing'[r].on
                                 /\ hwRing'[r].cfg = hwRing[r].cfg
                                 /\ hwRing'[r].cq = hwRing[r].cq
          /\ w.do = "config" => hwRing'[r].on = hwRing[r].on
          /\ w.do = "config" /\ ~hwRing[r].on =>
                hwRing'[r].cfg = w.cfg /\ hwRing'[r].cq = w.cq
          /\ w.do \in {"enable", "disable", "config"}
      BY <1>1, <1>4, <2>4, RingArrives
    <3> QED  BY <1>1, <1>2, <1>3, <2>4, <3>1, <3>2
  <2> QED  BY <2>2, <2>3, <2>4, <2>1
<1>5. CASE CqWrite(w)
  <2>1. PICK b : b = w.reg[2]
    OBVIOUS
  <2>2. /\ w.reg = CqReg(b) /\ b \in HwCq /\ w.reg \in Reg \ HwRing
        /\ \A c \in HwCq : c # b => hwCq'[c] = hwCq[c]
        /\ hwCq'[b].on <=> w.do = "enable" \/ (hwCq[b].on /\ w.do # "disable")
        /\ w.do = "config" /\ ~hwCq[b].on => hwCq'[b].cfg = w.cfg
        /\ w.do # "config" => hwCq'[b].cfg = hwCq[b].cfg
    BY <1>1, <1>5, <2>1, CqArrives
  <2>3. hwRing' = hwRing
    BY <1>5 DEF CqWrite
  <2>4. CASE r \in HwRing
    <3>1. HwOn(r)' = HwOn(r) /\ (\A k, c : Holds(r, k, c)' = Holds(r, k, c)) /\ w.reg # r
      BY <2>2, <2>3, <2>4 DEF HwOn, Holds
    <3> QED  BY <1>1, <1>2, <3>1
  <2>5. CASE r \notin HwRing /\ r # w.reg
    <3>1. r[2] \in HwCq /\ r[2] # b
      BY <2>2, <2>5, Registers
    <3>2. hwCq'[r[2]] = hwCq[r[2]]
      BY <2>2, <3>1
    <3>3. HwOn(r)' = HwOn(r) /\ \A k, c : Holds(r, k, c)' = Holds(r, k, c)
      BY <2>5, <3>2 DEF HwOn, Holds
    <3> QED  BY <1>1, <1>2, <2>5, <3>3
  <2>6. CASE r = w.reg
    <3>1. /\ HwOn(r) = hwCq[b].on /\ HwOn(r)' = hwCq'[b].on
          /\ \A k, c : Holds(r, k, c) <=> hwCq[b].cfg = k /\ c = None
          /\ \A k, c : Holds(r, k, c)' <=> hwCq'[b].cfg = k /\ c = None
      BY <2>1, <2>2, <2>6 DEF HwOn, Holds
    <3>2. w.do = "config" => w.cq = None
      BY <1>1, <2>2 DEF WriteOK
    <3> QED  BY <1>1, <1>2, <1>3, <2>2, <2>6, <3>1, <3>2
  <2> QED  BY <2>4, <2>5, <2>6
<1>6. CASE EqWrite(w)
  <2>1. w.reg = EqReg /\ hwRing' = hwRing /\ hwCq' = hwCq
    BY <1>6 DEF EqWrite
  <2>2. w.reg # r
    BY <2>1, Registers
  <2>3. HwOn(r)' = HwOn(r) /\ \A k, c : Holds(r, k, c)' = Holds(r, k, c)
    BY <2>1 DEF HwOn, Holds
  <2> QED  BY <1>1, <1>2, <2>2, <2>3
<1> QED  BY <1>4, <1>5, <1>6

(* The arrival of a write changes nothing of what the registers will be.   *)
LEMMA Arrives ==
    ASSUME HwTypes, Lands, DeliverWrite
    PROVE  /\ HwTypes' /\ RegsSame /\ Lands'
           /\ \A c \in HwCq : c \in ToSet(events') \/ hwCq'[c].unread > 0 =>
                c \in ToSet(events) \/ hwCq[c].unread > 0
           /\ \A h \in HwRing : \/ hwRing'[h].cq = hwRing[h].cq
                                \/ \E j \in 1 .. Len(posted) :
                                    Sets(posted, j, h, "config") /\ posted[j].cq = hwRing'[h].cq
           /\ \A j \in 1 .. Len(posted') : \E i \in 1 .. Len(posted) : posted'[j] = posted[i]
<1>1. PICK ps \in Seq(Write) : ps = posted
  BY DEF HwTypes
<1>2. PICK w : w = Head(ps)
  OBVIOUS
<1>3. /\ ps # <<>> /\ posted' = Tail(ps)
      /\ \/ RingWrite(w) \/ CqWrite(w) \/ EqWrite(w)
      /\ handler' = handler
  BY <1>1, <1>2 DEF DeliverWrite
<1>4. PICK m \in Nat : m = Len(ps) - 1
  BY <1>3
<1>5. /\ posted' \in Seq(Write) /\ Len(posted') = m /\ Len(ps) = m + 1
      /\ \A j \in 1 .. m : posted'[j] = ps[j + 1] /\ j + 1 \in 1 .. m + 1
      /\ 1 \in 1 .. m + 1
      /\ w = ps[1] /\ w \in Write
  BY <1>2, <1>3, <1>4
<1>6. WriteOK(w)
  BY <1>1, <1>5 DEF HwTypes
<1>7. /\ hwRing' \in [HwRing -> [on : BOOLEAN, cfg : Ring \union {None}, cq : HwCq \union {None}]]
      /\ hwCq' \in [HwCq -> [on : BOOLEAN, cfg : Ring \union {None}, armed : BOOLEAN, unread : Nat]]
      /\ events' \in Seq(HwCq)
      /\ \A c \in HwCq : c \in ToSet(events') \/ hwCq'[c].unread > 0 =>
            c \in ToSet(events) \/ hwCq[c].unread > 0
      /\ \A h \in HwRing : hwRing'[h].cq = hwRing[h].cq
                            \/ (Sets(ps, 1, h, "config") /\ ps[1].cq = hwRing'[h].cq)
  <2>1. CASE RingWrite(w)
    <3>1. hwCq' = hwCq /\ events' = events
      BY <2>1 DEF RingWrite
    <3>2. ASSUME NEW h \in HwRing
          PROVE  hwRing'[h].cq = hwRing[h].cq
                 \/ (Sets(ps, 1, h, "config") /\ ps[1].cq = hwRing'[h].cq)
      BY <1>5, <1>6, <2>1, RingArrives DEF Sets
    <3>3. hwRing' \in [HwRing -> [on : BOOLEAN, cfg : Ring \union {None}, cq : HwCq \union {None}]]
      BY <1>5, <1>6, <2>1, RingArrives
    <3> QED  BY <3>1, <3>2, <3>3 DEF HwTypes
  <2>2. CASE CqWrite(w)
    <3>1. hwRing' = hwRing
      BY <2>2 DEF CqWrite
    <3>2. PICK b : b = w.reg[2]
      OBVIOUS
    <3>3. /\ hwCq' \in [HwCq -> [on : BOOLEAN, cfg : Ring \union {None}, armed : BOOLEAN, unread : Nat]]
          /\ events' \in Seq(HwCq)
          /\ \A c \in HwCq : c # b => hwCq'[c] = hwCq[c]
          /\ hwCq'[b].unread > 0 => hwCq[b].unread > 0
          /\ \A c \in ToSet(events') : c \in ToSet(events) \/ (c = b /\ hwCq[b].unread > 0)
      BY <1>5, <1>6, <2>2, <3>2, CqArrives
    <3> QED  BY <3>1, <3>3 DEF HwTypes
  <2>3. CASE EqWrite(w)
    <3>1. hwCq' = hwCq /\ events' = events /\ hwRing' = hwRing
      BY <2>3 DEF EqWrite
    <3> QED  BY <3>1 DEF HwTypes
  <2> QED  BY <1>3, <2>1, <2>2, <2>3
<1>8. \A j \in 1 .. m : WriteOK(posted'[j])
  BY <1>1, <1>5 DEF HwTypes
<1>9. HwTypes'
  BY <1>3, <1>5, <1>7, <1>8 DEF HwTypes
<1>10. ASSUME NEW r \in Reg
       PROVE  \E on \in BOOLEAN, off \in BOOLEAN :
                /\ HwOn(r) = on /\ HwOn(r)' = off
                /\ off <=> Sets(ps, 1, r, "enable") \/ (on /\ ~Sets(ps, 1, r, "disable"))
  <2>1. HwOn(r) \in BOOLEAN
    BY RegTypes
  <2>2. HwOn(r)' \in BOOLEAN
    <3>1. CASE r \in HwRing
      BY <1>7, <3>1 DEF HwOn
    <3>2. CASE r \notin HwRing
      <4>1. r[2] \in HwCq
        BY <3>2, Registers
      <4> QED  BY <1>7, <3>2, <4>1 DEF HwOn
    <3> QED  BY <3>1, <3>2
  <2>3. HwOn(r)' <=> Sets(posted, 1, r, "enable") \/ (HwOn(r) /\ ~Sets(posted, 1, r, "disable"))
    BY <1>1, <1>2, <1>3, RegArrives
  <2> QED  BY <1>1, <2>1, <2>2, <2>3
<1>11. ASSUME NEW r \in Reg, NEW k, NEW c
       PROVE  \E holds \in BOOLEAN, held \in BOOLEAN :
                /\ Holds(r, k, c) = holds /\ Holds(r, k, c)' = held
                /\ Sets(ps, 1, r, "config") => (held <=> ps[1].cfg = k /\ ps[1].cq = c)
                /\ ~Sets(ps, 1, r, "config") => (held <=> holds)
  <2>1. Holds(r, k, c) \in BOOLEAN
    BY RegTypes
  <2>2. Holds(r, k, c)' \in BOOLEAN
    <3>1. CASE r \in HwRing
      BY <3>1 DEF Holds
    <3>2. CASE r \notin HwRing
      BY <3>2 DEF Holds
    <3> QED  BY <3>1, <3>2
  <2>3. /\ Sets(posted, 1, r, "config") => \A x, y : Holds(r, x, y)' <=> w.cfg = x /\ w.cq = y
        /\ ~Sets(posted, 1, r, "config") => \A x, y : Holds(r, x, y)' <=> Holds(r, x, y)
    BY <1>1, <1>2, <1>3, RegArrives
  <2> QED  BY <1>1, <1>5, <2>1, <2>2, <2>3
<1>12. \A r \in Reg : OffEnd(r)' <=> OffEnd(r)
  <2> SUFFICES ASSUME NEW r \in Reg PROVE OffEnd(r)' <=> OffEnd(r)
    OBVIOUS
  <2>1. PICK on \in BOOLEAN, off \in BOOLEAN :
                /\ HwOn(r) = on /\ HwOn(r)' = off
                /\ off <=> Sets(ps, 1, r, "enable") \/ (on /\ ~Sets(ps, 1, r, "disable"))
    BY <1>10
  <2>2. m \in 0 .. Len(ps) - 1
    BY <1>4, <1>5
  <2>3. OffIn(Tail(ps), off, r, m) <=> OffIn(ps, on, r, m + 1)
    BY <1>3, <2>1, <2>2, OffTail
  <2>4. OffEnd(r) <=> OffIn(ps, on, r, m + 1)
    BY <1>1, <1>5, <2>1 DEF OffEnd
  <2>5. OffEnd(r)' <=> OffIn(Tail(ps), off, r, m)
    BY <1>3, <1>5, <2>1 DEF OffEnd
  <2> QED  BY <2>3, <2>4, <2>5
<1>13. \A r \in Reg : \A k, c : CfgEnd(r, k, c)' <=> CfgEnd(r, k, c)
  <2> SUFFICES ASSUME NEW r \in Reg, NEW k, NEW c PROVE CfgEnd(r, k, c)' <=> CfgEnd(r, k, c)
    OBVIOUS
  <2>1. PICK holds \in BOOLEAN, held \in BOOLEAN :
                /\ Holds(r, k, c) = holds /\ Holds(r, k, c)' = held
                /\ Sets(ps, 1, r, "config") => (held <=> ps[1].cfg = k /\ ps[1].cq = c)
                /\ ~Sets(ps, 1, r, "config") => (held <=> holds)
    BY <1>11
  <2>2. CfgIn(Tail(ps), held, r, k, c) <=> CfgIn(ps, holds, r, k, c)
    BY <1>3, <2>1, CfgTail
  <2>3. CfgEnd(r, k, c) <=> CfgIn(ps, holds, r, k, c)
    BY <1>1, <2>1 DEF CfgEnd
  <2>4. CfgEnd(r, k, c)' <=> CfgIn(Tail(ps), held, r, k, c)
    BY <1>3, <2>1 DEF CfgEnd
  <2> QED  BY <2>2, <2>3, <2>4
<1>14. Lands'
  <2> SUFFICES ASSUME NEW r \in Reg PROVE LandsIn(posted', HwOn(r)', r)
    BY DEF Lands
  <2>1. PICK on \in BOOLEAN, off \in BOOLEAN :
                /\ HwOn(r) = on /\ HwOn(r)' = off
                /\ off <=> Sets(ps, 1, r, "enable") \/ (on /\ ~Sets(ps, 1, r, "disable"))
    BY <1>10
  <2>2. LandsIn(ps, on, r)
    BY <1>1, <2>1 DEF Lands
  <2>3. LandsIn(Tail(ps), off, r)
    BY <1>3, <2>1, <2>2, LandsTail
  <2> QED  BY <1>3, <2>1, <2>3
<1>15. /\ \A c \in HwCq : c \in ToSet(events') \/ hwCq'[c].unread > 0 =>
            c \in ToSet(events) \/ hwCq[c].unread > 0
       /\ \A h \in HwRing : \/ hwRing'[h].cq = hwRing[h].cq
                             \/ \E j \in 1 .. Len(posted) :
                                    Sets(posted, j, h, "config") /\ posted[j].cq = hwRing'[h].cq
       /\ \A j \in 1 .. Len(posted') : \E i \in 1 .. Len(posted) : posted'[j] = posted[i]
  <2>1. \A h \in HwRing : \/ hwRing'[h].cq = hwRing[h].cq
                           \/ \E j \in 1 .. Len(posted) :
                                  Sets(posted, j, h, "config") /\ posted[j].cq = hwRing'[h].cq
    BY <1>1, <1>5, <1>7
  <2>2. \A j \in 1 .. Len(posted') : \E i \in 1 .. Len(posted) : posted'[j] = posted[i]
    BY <1>1, <1>5
  <2> QED  BY <1>7, <2>1, <2>2
<1> QED  BY <1>9, <1>12, <1>13, <1>14, <1>15 DEF RegsSame

-----------------------------------------------------------------------------
(* Free lists                                                              *)

(* The lowest free index is taken.                                         *)
LEMMA Taken ==
    ASSUME NEW S \in SUBSET Nat, NEW list \in Seq(S), Sorted(list), list # <<>>
    PROVE  /\ Tail(list) \in Seq(S) /\ Sorted(Tail(list))
           /\ Head(list) \in S
           /\ ToSet(Tail(list)) = ToSet(list) \ {Head(list)}
           /\ Head(list) \in ToSet(list)
<1>1. PICK n \in Nat : n = Len(list) - 1
  OBVIOUS
<1>2. PICK t : t = Tail(list)
  OBVIOUS
<1>3. /\ t \in Seq(S) /\ DOMAIN t = 1 .. n
      /\ \A j \in 1 .. n : t[j] = list[j + 1] /\ j + 1 \in 1 .. n + 1
      /\ DOMAIN list = 1 .. n + 1 /\ 1 \in 1 .. n + 1
      /\ Head(list) = list[1]
  BY <1>1, <1>2
<1>4. Sorted(t)
  <2>1. \A i, j \in 1 .. n : i < j => i + 1 < j + 1
    OBVIOUS
  <2> QED  BY <1>3, <2>1 DEF Sorted
<1>5. ToSet(list) = ToSet(t) \union {Head(list)} /\ Head(list) \in S
  BY <1>2, TailSet
<1>6. Head(list) \notin ToSet(t)
  <2> SUFFICES ASSUME NEW j \in 1 .. n PROVE t[j] # list[1]
    BY <1>3 DEF ToSet
  <2>1. 1 < j + 1
    BY <1>1
  <2>2. list[1] < list[j + 1]
    BY <1>3, <2>1 DEF Sorted
  <2>3. list[1] \in Nat
    BY <1>3, <1>5
  <2> QED  BY <1>3, <2>2, <2>3
<1> QED  BY <1>2, <1>3, <1>4, <1>5, <1>6

(* A set of numbers has a least one.                                       *)
LEMMA Smallest ==
    ASSUME NEW T \in SUBSET Nat, T # {}
    PROVE  \E x \in T : \A y \in T : x <= y
<1> DEFINE R == OpToRel(<, Nat)
<1>1. PICK x \in T : \A y \in T : ~(<<y, x>> \in R)
  <2> HIDE DEF R
  <2>1. IsWellFoundedOn(R, Nat)
    BY NatLessThanWellFounded DEF R
  <2> QED  BY <2>1, WFMin
<1>2. \A y \in T : ~(y < x)
  BY <1>1 DEF OpToRel
<1> QED  BY <1>2

(* An index is put back where it belongs.                                  *)
LEMMA PutBack ==
    ASSUME NEW S \in SUBSET Nat, NEW list \in Seq(S), Sorted(list), NEW i \in S,
           i \notin ToSet(list)
    PROVE  /\ Freed(list, i) \in Seq(S) /\ Sorted(Freed(list, i))
           /\ ToSet(Freed(list, i)) = ToSet(list) \union {i}
<1>1. PICK n \in Nat : n = Len(list)
  OBVIOUS
<1>2. /\ DOMAIN list = 1 .. n
      /\ \A j \in 1 .. n : list[j] \in Nat /\ list[j] \in S /\ list[j] # i
      /\ \A a, b \in 1 .. n : a < b => list[a] < list[b]
  <2>1. DOMAIN list = 1 .. n /\ \A j \in 1 .. n : list[j] \in S
    BY <1>1
  <2>2. \A j \in 1 .. n : list[j] # i
    BY <2>1 DEF ToSet
  <2>3. \A a, b \in 1 .. n : a < b => list[a] < list[b]
    BY <2>1 DEF Sorted
  <2> QED  BY <2>1, <2>2, <2>3
<1> DEFINE later == {j \in 1 .. n + 1 : j = n + 1 \/ list[j] > i}
<1>3. PICK p \in later : \A j \in later : p <= j
  <2>1. later \in SUBSET Nat /\ n + 1 \in later
    BY <1>1
  <2> HIDE DEF later
  <2> QED  BY <2>1, Smallest
<1>4. /\ p \in 1 .. n + 1
      /\ \A j \in 1 .. n : j < p => list[j] < i
      /\ \A j \in 1 .. n : j >= p => list[j] > i
  <2>1. p \in 1 .. n + 1 /\ (p = n + 1 \/ list[p] > i)
    BY <1>3
  <2>2. \A j \in 1 .. n : j < p => list[j] < i
    <3> SUFFICES ASSUME NEW j \in 1 .. n, j < p PROVE list[j] < i
      OBVIOUS
    <3>1. j \notin later
      BY <1>3, <2>1
    <3>2. j \in 1 .. n + 1
      BY <1>1
    <3>3. ~(list[j] > i)
      BY <3>1, <3>2
    <3> QED  BY <1>2, <3>3
  <2>3. \A j \in 1 .. n : j >= p => list[j] > i
    <3> SUFFICES ASSUME NEW j \in 1 .. n, j >= p PROVE list[j] > i
      OBVIOUS
    <3>1. p \in 1 .. n /\ list[p] > i
      BY <2>1
    <3>2. p = j \/ list[p] < list[j]
      BY <1>2, <3>1
    <3> QED  BY <1>2, <3>1, <3>2
  <2> QED  BY <2>1, <2>2, <2>3
<1> HIDE DEF later
<1>5. PICK f : f = Freed(list, i)
  OBVIOUS
<1>6. f = [j \in 1 .. n + 1 |-> IF j < p THEN list[j] ELSE IF j = p THEN i ELSE list[j - 1]]
  <2> DEFINE g(j) == IF j <= Len(list) /\ list[j] < i THEN list[j]
                     ELSE IF j = 1 \/ list[j - 1] < i THEN i ELSE list[j - 1]
             h(j) == IF j < p THEN list[j] ELSE IF j = p THEN i ELSE list[j - 1]
  <2>1. ASSUME NEW j \in 1 .. n + 1 PROVE g(j) = h(j)
    <3>1. CASE j < p
      BY <1>1, <1>4, <3>1
    <3>2. CASE j = p
      <4>1. ~(j <= Len(list) /\ list[j] < i)
        BY <1>1, <1>2, <1>4, <3>2
      <4>2. j = 1 \/ list[j - 1] < i
        BY <1>4, <3>2
      <4> QED  BY <3>2, <4>1, <4>2
    <3>3. CASE j > p
      <4>1. ~(j <= Len(list) /\ list[j] < i)
        BY <1>1, <1>2, <1>4, <3>3
      <4>2. j - 1 \in 1 .. n /\ j - 1 >= p
        BY <1>4, <3>3
      <4>3. ~(j = 1 \/ list[j - 1] < i)
        BY <1>2, <1>4, <4>2
      <4> QED  BY <1>4, <3>3, <4>1, <4>3
    <3> QED  BY <1>4, <3>1, <3>2, <3>3
  <2>2. f = [j \in 1 .. n + 1 |-> g(j)]
    BY <1>1, <1>5 DEF Freed
  <2> HIDE DEF g, h
  <2>3. f = [j \in 1 .. n + 1 |-> h(j)]
    BY <2>1, <2>2
  <2> QED  BY <2>3 DEF h
<1>7. /\ \A j \in 1 .. n + 1 : j < p => f[j] = list[j] /\ j \in 1 .. n
      /\ f[p] = i
      /\ \A j \in 1 .. n + 1 : j > p => f[j] = list[j - 1] /\ j - 1 \in 1 .. n /\ j - 1 >= p
      /\ DOMAIN f = 1 .. n + 1
  BY <1>4, <1>6
<1>8. \A j \in 1 .. n + 1 : f[j] \in S
  BY <1>2, <1>4, <1>7
<1>9. f \in Seq(S)
  BY <1>6, <1>8
<1>10. Sorted(f)
  <2> SUFFICES ASSUME NEW a \in 1 .. n + 1, NEW b \in 1 .. n + 1, a < b PROVE f[a] < f[b]
    BY <1>7 DEF Sorted
  <2>1. CASE b < p
    BY <1>2, <1>4, <1>7, <2>1
  <2>2. CASE b = p
    BY <1>4, <1>7, <2>2
  <2>3. CASE b > p /\ a < p
    <3>1. f[a] < i /\ f[b] > i
      BY <1>4, <1>7, <2>3
    <3>2. f[a] \in Nat /\ f[b] \in Nat /\ i \in Nat
      BY <1>8
    <3> QED  BY <3>1, <3>2
  <2>4. CASE b > p /\ a = p
    BY <1>4, <1>7, <2>4
  <2>5. CASE b > p /\ a > p
    <3>1. a - 1 < b - 1 /\ a - 1 \in 1 .. n /\ b - 1 \in 1 .. n
      BY <1>4, <1>7, <2>5
    <3> QED  BY <1>2, <1>7, <2>5, <3>1
  <2> QED  BY <1>4, <2>1, <2>2, <2>3, <2>4, <2>5
<1>11. ToSet(f) = ToSet(list) \union {i}
  <2>1. ASSUME NEW x \in ToSet(f) PROVE x \in ToSet(list) \union {i}
    <3>1. PICK j \in 1 .. n + 1 : x = f[j]
      BY <1>7 DEF ToSet
    <3>2. x = i \/ \E a \in 1 .. n : x = list[a]
      BY <1>4, <1>7, <3>1
    <3> QED  BY <1>2, <3>2 DEF ToSet
  <2>2. ASSUME NEW a \in 1 .. n PROVE list[a] \in ToSet(f)
    <3>1. CASE a < p
      <4>1. a \in 1 .. n + 1 /\ f[a] = list[a]
        BY <1>7, <3>1
      <4> QED  BY <1>7, <4>1 DEF ToSet
    <3>2. CASE a >= p
      <4>1. a + 1 \in 1 .. n + 1 /\ a + 1 > p /\ (a + 1) - 1 = a
        BY <1>4, <3>2
      <4>2. f[a + 1] = list[a]
        BY <1>7, <4>1
      <4> QED  BY <1>7, <4>1, <4>2 DEF ToSet
    <3> QED  BY <1>4, <3>1, <3>2
  <2>3. i \in ToSet(f)
    BY <1>4, <1>7 DEF ToSet
  <2>4. \A x \in ToSet(list) : \E a \in 1 .. n : x = list[a]
    BY <1>2 DEF ToSet
  <2> QED  BY <2>1, <2>2, <2>3, <2>4
<1> QED  BY <1>5, <1>9, <1>10, <1>11

-----------------------------------------------------------------------------
(* Who owns what                                                           *)

CqsOwned ==
    /\ freeCq \in Seq(HwCq) /\ Sorted(freeCq)
    /\ cqn \in [Ring -> HwCq \union {None}]
    /\ cqTable \in [HwCq -> Ring \union {None}]
    /\ \A c \in HwCq : c \in ToSet(freeCq) <=> ~\E k \in Ring : cqn[k] = c
    /\ \A c \in HwCq : \A k \in Ring : cqn[k] = c <=> cqTable[c] = k

Slots(q) == 0 .. Count(q) - 1
IndicesOwned ==
    /\ freeIndex \in [Kinds -> Seq(Nat)]
    /\ \A q \in Kinds : freeIndex[q] \in Seq(Slots(q)) /\ Sorted(freeIndex[q])
    /\ index \in [Ring -> Nat \union {None}]
    /\ \A k \in Ring : index[k] # None => index[k] \in Slots(Kind(k))
    /\ \A q \in Kinds : \A i \in Slots(q) :
        i \in ToSet(freeIndex[q]) <=> ~\E k \in Ring : Kind(k) = q /\ index[k] = i
    /\ \A k, l \in Ring : k # l /\ Kind(k) = Kind(l) /\ index[k] # None => index[k] # index[l]

(* The register of an open ring is a register of the hardware, and its own.*)
LEMMA OwnRegister ==
    ASSUME IndicesOwned
    PROVE  /\ \A k \in Ring : index[k] # None => RingReg(k) \in HwRing
           /\ \A k \in Ring : index[k] = None => RingReg(k) \notin HwRing
           /\ \A k, l \in Ring : k # l /\ index[k] # None => RingReg(k) # RingReg(l)
           /\ \A k \in Ring : \A q, i : RingReg(k) = <<q, i>> <=> Kind(k) = q /\ index[k] = i
           /\ \A k \in Ring : RingReg(k)[1] = Kind(k)
<1>1. \A k \in Ring : \A q, i : RingReg(k) = <<q, i>> <=> Kind(k) = q /\ index[k] = i
  BY DEF RingReg
<1>2. \A k \in Ring : index[k] # None => RingReg(k) \in HwRing
  BY Registers, Numbers DEF IndicesOwned, RingReg, Slots
<1>3. \A k \in Ring : index[k] = None => RingReg(k) \notin HwRing
  <2> SUFFICES ASSUME NEW k \in Ring, index[k] = None, RingReg(k) \in HwRing PROVE FALSE
    OBVIOUS
  <2>1. PICK q, i : q = Kind(k) /\ i = index[k] /\ RingReg(k) = <<q, i>>
    BY DEF RingReg
  <2>2. <<q, i>>[2] \in 0 .. Count(<<q, i>>[1]) - 1
    BY <2>1, Registers
  <2>3. i \in Nat
    BY <2>1, <2>2, Numbers
  <2> QED  BY <2>1, <2>3, Numbers
<1>4. \A k, l \in Ring : k # l /\ index[k] # None => RingReg(k) # RingReg(l)
  BY DEF IndicesOwned, RingReg
<1>5. \A k \in Ring : RingReg(k)[1] = Kind(k)
  BY DEF RingReg
<1> QED  BY <1>1, <1>2, <1>3, <1>4, <1>5

(* This is what IndicesConserved says.                                     *)
LEMMA Conserved == CqsOwned /\ IndicesOwned => IndicesConserved
<1> SUFFICES ASSUME CqsOwned, IndicesOwned PROVE IndicesConserved
  OBVIOUS
<1>1. Sorted(freeCq) /\ \A q \in {"rx", "tx"} : Sorted(freeIndex[q])
  BY DEF CqsOwned, IndicesOwned, Kinds
<1>2. ASSUME NEW c \in HwCq
      PROVE  (c \in ToSet(freeCq)) # (\E k \in Ring : cqn[k] = c)
  <2>1. c \in ToSet(freeCq) <=> ~\E k \in Ring : cqn[k] = c
    BY DEF CqsOwned
  <2> QED  BY <2>1, Zenon
<1>3. \A c \in HwCq : \A k \in Ring : cqn[k] = c <=> cqTable[c] = k
  BY DEF CqsOwned
<1>4. ASSUME NEW h \in HwRing
      PROVE  (h[2] \in ToSet(freeIndex[h[1]])) # (\E k \in Ring : RingReg(k) = h)
  <2>1. PICK q, i : q = h[1] /\ i = h[2] /\ h = <<q, i>> /\ q \in Kinds /\ i \in Slots(q)
    BY Registers DEF Slots
  <2>2. \A k \in Ring : RingReg(k) = h <=> Kind(k) = q /\ index[k] = i
    BY <2>1, OwnRegister
  <2>3. i \in ToSet(freeIndex[q]) <=> ~\E k \in Ring : Kind(k) = q /\ index[k] = i
    BY <2>1 DEF IndicesOwned
  <2>4. h[2] \in ToSet(freeIndex[h[1]]) <=> ~\E k \in Ring : RingReg(k) = h
    BY <2>1, <2>2, <2>3
  <2> QED  BY <2>4, Zenon
<1>5. \A k, l \in Ring : k # l /\ index[k] # None => RingReg(k) # RingReg(l)
  BY OwnRegister
<1> QED  BY <1>1, <1>2, <1>3, <1>4, <1>5 DEF IndicesConserved

(* How many numbers an interval has.                                       *)
LEMMA HowMany ==
    ASSUME NEW a \in Nat, NEW n \in Nat, NEW b, b = a + n - 1
    PROVE  IsFiniteSet(a .. b) /\ Cardinality(a .. b) = n
<1>1. a \in Int /\ b \in Int
  OBVIOUS
<1>2. IsFiniteSet(a .. b) /\ Cardinality(a .. b) = IF a > b THEN 0 ELSE b - a + 1
  BY <1>1, FS_Interval
<1>3. (IF a > b THEN 0 ELSE b - a + 1) = n
  OBVIOUS
<1> QED  BY <1>2, <1>3

(* There are as many completion queues as rings: one is free for a ring    *)
(* that has none.                                                          *)
LEMMA CqLeft ==
    ASSUME CqsOwned, NEW k \in Ring, cqn[k] = None
    PROVE  freeCq # <<>>
<1> SUFFICES ASSUME freeCq = <<>> PROVE FALSE
  OBVIOUS
<1>1. \A c \in HwCq : cqTable[c] \in Ring \ {k} /\ cqn[cqTable[c]] = c
  <2> SUFFICES ASSUME NEW c \in HwCq PROVE cqTable[c] \in Ring \ {k} /\ cqn[cqTable[c]] = c
    OBVIOUS
  <2>1. c \notin ToSet(freeCq)
    BY DEF ToSet
  <2>2. PICK l \in Ring : cqn[l] = c
    BY <2>1 DEF CqsOwned
  <2>3. cqTable[c] = l /\ l # k
    BY <2>2, Numbers DEF CqsOwned
  <2> QED  BY <2>2, <2>3
<1>2. PICK f : f = cqTable
  OBVIOUS
<1>3. f \in [HwCq -> Ring \ {k}]
  BY <1>1, <1>2 DEF CqsOwned
<1> PICK N \in Nat : N = NRx + NTx
  BY Numbers
<1>4. IsFiniteSet(HwCq) /\ Cardinality(HwCq) = N
  <2>1. 0 \in Nat /\ NRx + NTx - 1 = 0 + N - 1
    BY Numbers
  <2> QED  BY <2>1, HowMany DEF HwCq
<1>5. IsFiniteSet(Ring) /\ Cardinality(Ring) = N
  <2>1. 1 \in Nat /\ N = 1 + N - 1
    OBVIOUS
  <2>2. Ring = 1 .. N
    BY DEF Ring
  <2> QED  BY <2>1, <2>2, HowMany
<1>6. IsFiniteSet(Ring \ {k}) /\ Cardinality(Ring \ {k}) = N - 1
  BY <1>5, FS_RemoveElement
<1>7. Cardinality(Ring \ {k}) < Cardinality(HwCq)
  BY <1>4, <1>6
<1>8. \E x, y \in HwCq : x # y /\ f[x] = f[y]
  BY <1>3, <1>4, <1>6, <1>7, FS_PigeonHole
<1> QED  BY <1>1, <1>2, <1>8

(* There are as many queues of a kind as rings of that kind.               *)
LEMMA IndexLeft ==
    ASSUME IndicesOwned, NEW k \in Ring, index[k] = None
    PROVE  freeIndex[Kind(k)] # <<>>
<1> SUFFICES ASSUME freeIndex[Kind(k)] = <<>> PROVE FALSE
  OBVIOUS
<1>1. PICK q \in Kinds : q = Kind(k)
  BY Numbers
<1> DEFINE Same == {l \in Ring : Kind(l) = q}
<1>2. ASSUME NEW i \in Slots(q) PROVE \E l \in Same \ {k} : index[l] = i
  <2>1. i \notin ToSet(freeIndex[q])
    BY <1>1 DEF ToSet
  <2>2. PICK l \in Ring : Kind(l) = q /\ index[l] = i
    BY <2>1 DEF IndicesOwned
  <2>3. l # k
    BY <2>2, Numbers DEF Slots
  <2> QED  BY <2>2, <2>3
<1>3. PICK f : f = [i \in Slots(q) |-> CHOOSE l \in Same \ {k} : index[l] = i]
  OBVIOUS
<1>4. \A i \in Slots(q) : f[i] \in Same \ {k} /\ index[f[i]] = i
  BY <1>2, <1>3
<1>5. f \in [Slots(q) -> Same \ {k}]
  BY <1>3, <1>4
<1> PICK N \in Nat : N = Count(q)
  BY Numbers
<1>6. IsFiniteSet(Slots(q)) /\ Cardinality(Slots(q)) = N
  <2>1. 0 \in Nat /\ Count(q) - 1 = 0 + N - 1
    OBVIOUS
  <2> QED  BY <2>1, HowMany DEF Slots
<1>7. IsFiniteSet(Same) /\ Cardinality(Same) = N
  <2>1. CASE q = "rx"
    <3>1. Same = 1 .. N
      BY <2>1, Numbers DEF Ring, Kind, Count
    <3>2. 1 \in Nat /\ N = 1 + N - 1
      OBVIOUS
    <3>3. IsFiniteSet(1 .. N) /\ Cardinality(1 .. N) = N
      BY <3>2, HowMany
    <3> HIDE DEF Same
    <3> QED  BY <3>1, <3>3
  <2>2. CASE q = "tx"
    <3>1. Same = NRx + 1 .. NRx + N
      BY <2>2, Numbers DEF Ring, Kind, Count
    <3>2. NRx + 1 \in Nat /\ NRx + N = (NRx + 1) + N - 1
      BY Numbers
    <3>3. IsFiniteSet(NRx + 1 .. NRx + N) /\ Cardinality(NRx + 1 .. NRx + N) = N
      BY <3>2, HowMany
    <3> HIDE DEF Same
    <3> QED  BY <3>1, <3>3
  <2> QED  BY <2>1, <2>2 DEF Kinds
<1>8. k \in Same
  BY <1>1
<1> HIDE DEF Same
<1>9. IsFiniteSet(Same \ {k}) /\ Cardinality(Same \ {k}) = N - 1
  BY <1>7, <1>8, FS_RemoveElement
<1>10. Cardinality(Same \ {k}) < Cardinality(Slots(q))
  BY <1>6, <1>9
<1>11. \E x, y \in Slots(q) : x # y /\ f[x] = f[y]
  BY <1>5, <1>6, <1>9, <1>10, FS_PigeonHole
<1> QED  BY <1>4, <1>11

(* A ring takes the lowest free completion queue, and gives it back.       *)
LEMMA CqTaken ==
    ASSUME CqsOwned, NEW k \in Ring, cqn[k] = None, NEW c, c = Head(freeCq),
           freeCq' = Tail(freeCq), cqn' = [cqn EXCEPT ![k] = c],
           cqTable' = [cqTable EXCEPT ![c] = k]
    PROVE  /\ CqsOwned' /\ c \in HwCq
           /\ \A l \in Ring : cqn[l] # c
<1>1. freeCq \in Seq(HwCq) /\ Sorted(freeCq) /\ freeCq # <<>> /\ HwCq \in SUBSET Nat
  BY CqLeft, Numbers DEF CqsOwned
<1>2. /\ freeCq' \in Seq(HwCq) /\ Sorted(freeCq)' /\ c \in HwCq
      /\ ToSet(freeCq') = ToSet(freeCq) \ {c} /\ c \in ToSet(freeCq)
  BY <1>1, Taken DEF Sorted
<1>3. \A l \in Ring : cqn[l] # c
  BY <1>2 DEF CqsOwned
<1>4. /\ cqn' \in [Ring -> HwCq \union {None}] /\ cqn'[k] = c
      /\ \A l \in Ring : l # k => cqn'[l] = cqn[l]
  BY <1>2 DEF CqsOwned
<1>5. /\ cqTable' \in [HwCq -> Ring \union {None}] /\ cqTable'[c] = k
      /\ \A d \in HwCq : d # c => cqTable'[d] = cqTable[d]
  BY <1>2 DEF CqsOwned
<1>6. ASSUME NEW d \in HwCq
      PROVE  d \in ToSet(freeCq') <=> ~\E l \in Ring : cqn'[l] = d
  <2>1. CASE d = c
    BY <1>2, <1>4, <2>1
  <2>2. CASE d # c
    <3>1. (\E l \in Ring : cqn'[l] = d) <=> (\E l \in Ring : cqn[l] = d)
      BY <1>4, <2>2, Numbers
    <3>2. d \in ToSet(freeCq') <=> d \in ToSet(freeCq)
      BY <1>2, <2>2
    <3> QED  BY <3>1, <3>2 DEF CqsOwned
  <2> QED  BY <2>1, <2>2
<1>7. ASSUME NEW d \in HwCq, NEW l \in Ring PROVE cqn'[l] = d <=> cqTable'[d] = l
  <2>1. cqn[l] = d <=> cqTable[d] = l
    BY DEF CqsOwned
  <2>2. CASE d = c
    BY <1>3, <1>4, <1>5, <2>2
  <2>3. CASE d # c /\ l = k
    <3>1. cqTable[d] # k
      BY <2>1, <2>3, Numbers
    <3> QED  BY <1>4, <1>5, <2>3, <3>1
  <2>4. CASE d # c /\ l # k
    BY <1>4, <1>5, <2>1, <2>4
  <2> QED  BY <2>2, <2>3, <2>4
<1> QED  BY <1>2, <1>3, <1>4, <1>5, <1>6, <1>7 DEF CqsOwned

(* A completion queue is freed.                                            *)
LEMMA CqGiven ==
    ASSUME CqsOwned, NEW k \in Ring, NEW c, c = cqn[k], c # None,
           freeCq' = Freed(freeCq, c), cqn' = [cqn EXCEPT ![k] = None],
           cqTable' = [cqTable EXCEPT ![c] = None]
    PROVE  CqsOwned' /\ c \in HwCq
<1>1. freeCq \in Seq(HwCq) /\ Sorted(freeCq) /\ c \in HwCq /\ HwCq \in SUBSET Nat
  BY Numbers DEF CqsOwned
<1>2. c \notin ToSet(freeCq)
  BY <1>1 DEF CqsOwned
<1>3. /\ freeCq' \in Seq(HwCq) /\ Sorted(freeCq)'
      /\ ToSet(freeCq') = ToSet(freeCq) \union {c}
  BY <1>1, <1>2, PutBack DEF Sorted
<1>4. /\ cqn' \in [Ring -> HwCq \union {None}] /\ cqn'[k] = None
      /\ \A l \in Ring : l # k => cqn'[l] = cqn[l]
  BY <1>1 DEF CqsOwned
<1>5. /\ cqTable' \in [HwCq -> Ring \union {None}] /\ cqTable'[c] = None
      /\ \A d \in HwCq : d # c => cqTable'[d] = cqTable[d]
  BY <1>1 DEF CqsOwned
<1>6. \A l \in Ring : l # k => cqn[l] # c
  <2>1. cqTable[c] = k /\ \A l \in Ring : cqn[l] = c => cqTable[c] = l
    BY <1>1 DEF CqsOwned
  <2> QED  BY <2>1
<1>7. ASSUME NEW d \in HwCq
      PROVE  d \in ToSet(freeCq') <=> ~\E l \in Ring : cqn'[l] = d
  <2>1. CASE d = c
    <3>1. \A l \in Ring : cqn'[l] # c
      BY <1>1, <1>4, <1>6, Numbers
    <3> QED  BY <1>3, <2>1, <3>1
  <2>2. CASE d # c
    <3>1. (\E l \in Ring : cqn'[l] = d) <=> (\E l \in Ring : cqn[l] = d)
      BY <1>4, <2>2, Numbers
    <3>2. d \in ToSet(freeCq') <=> d \in ToSet(freeCq)
      BY <1>3, <2>2
    <3> QED  BY <3>1, <3>2 DEF CqsOwned
  <2> QED  BY <2>1, <2>2
<1>8. ASSUME NEW d \in HwCq, NEW l \in Ring PROVE cqn'[l] = d <=> cqTable'[d] = l
  <2>1. cqn[l] = d <=> cqTable[d] = l
    BY DEF CqsOwned
  <2>2. CASE d = c
    <3>1. cqn'[l] # c
      BY <1>1, <1>4, <1>6, Numbers
    <3> QED  BY <1>5, <2>2, <3>1, Numbers
  <2>3. CASE d # c /\ l = k
    <3>1. cqTable[d] # k
      BY <2>1, <2>3
    <3> QED  BY <1>4, <1>5, <2>3, <3>1, Numbers
  <2>4. CASE d # c /\ l # k
    BY <1>4, <1>5, <2>1, <2>4
  <2> QED  BY <2>2, <2>3, <2>4
<1> QED  BY <1>1, <1>3, <1>4, <1>5, <1>7, <1>8 DEF CqsOwned

(* A ring takes the lowest free index of its kind, and gives it back.      *)
LEMMA IndexTaken ==
    ASSUME IndicesOwned, NEW k \in Ring, index[k] = None, NEW i, i = Head(freeIndex[Kind(k)]),
           freeIndex' = [freeIndex EXCEPT ![Kind(k)] = Tail(@)],
           index' = [index EXCEPT ![k] = i]
    PROVE  /\ IndicesOwned' /\ i \in Slots(Kind(k))
           /\ \A l \in Ring : Kind(l) = Kind(k) => index[l] # i
<1>1. PICK q \in Kinds : q = Kind(k)
  BY Numbers
<1>2. PICK list : list = freeIndex[q]
  OBVIOUS
<1>3. list \in Seq(Slots(q)) /\ Sorted(list) /\ list # <<>> /\ Slots(q) \in SUBSET Nat /\ i = Head(list)
  <2>1. Slots(q) \in SUBSET Nat
    BY Numbers DEF Slots
  <2> QED  BY <1>1, <1>2, <2>1, IndexLeft DEF IndicesOwned
<1>4. /\ Tail(list) \in Seq(Slots(q)) /\ Sorted(Tail(list)) /\ i \in Slots(q)
      /\ ToSet(Tail(list)) = ToSet(list) \ {i} /\ i \in ToSet(list)
  BY <1>3, Taken
<1>5. i \in Nat
  BY <1>3, <1>4
<1>6. Tail(list) \in Seq(Nat)
  BY <1>3, <1>4
<1>7. /\ freeIndex' \in [Kinds -> Seq(Nat)] /\ freeIndex'[q] = Tail(list)
      /\ \A t \in Kinds : t # q => freeIndex'[t] = freeIndex[t]
  BY <1>1, <1>2, <1>6 DEF IndicesOwned
<1>8. /\ index' \in [Ring -> Nat \union {None}] /\ index'[k] = i
      /\ \A l \in Ring : l # k => index'[l] = index[l]
  BY <1>5 DEF IndicesOwned
<1>9. \A l \in Ring : Kind(l) = q => index[l] # i
  BY <1>2, <1>4 DEF IndicesOwned
<1>10. \A t \in Kinds : freeIndex'[t] \in Seq(Slots(t)) /\ Sorted(freeIndex'[t])
  BY <1>4, <1>7 DEF IndicesOwned
<1>11. \A l \in Ring : index'[l] # None => index'[l] \in Slots(Kind(l))
  BY <1>1, <1>4, <1>8 DEF IndicesOwned
<1>12. ASSUME NEW t \in Kinds, NEW j \in Slots(t)
       PROVE  j \in ToSet(freeIndex'[t]) <=> ~\E l \in Ring : Kind(l) = t /\ index'[l] = j
  <2>0. j \in ToSet(freeIndex[t]) <=> ~\E l \in Ring : Kind(l) = t /\ index[l] = j
    BY DEF IndicesOwned
  <2>1. CASE t = q /\ j = i
    BY <1>1, <1>4, <1>7, <1>8, <2>1
  <2>2. CASE t # q \/ j # i
    <3>1. j # None
      BY Numbers DEF Slots
    <3>2. (\E l \in Ring : Kind(l) = t /\ index'[l] = j) <=> (\E l \in Ring : Kind(l) = t /\ index[l] = j)
      BY <1>1, <1>8, <2>2, <3>1
    <3>3. j \in ToSet(freeIndex'[t]) <=> j \in ToSet(freeIndex[t])
      BY <1>2, <1>4, <1>7, <2>2
    <3> QED  BY <2>0, <3>2, <3>3
  <2> QED  BY <2>1, <2>2
<1>13. \A l, m \in Ring : l # m /\ Kind(l) = Kind(m) /\ index'[l] # None => index'[l] # index'[m]
  <2> SUFFICES ASSUME NEW l \in Ring, NEW m \in Ring, l # m, Kind(l) = Kind(m), index'[l] # None
               PROVE  index'[l] # index'[m]
    OBVIOUS
  <2>1. CASE l = k
    BY <1>1, <1>8, <1>9, <2>1
  <2>2. CASE m = k
    BY <1>1, <1>8, <1>9, <2>2
  <2>3. CASE l # k /\ m # k
    BY <1>8, <2>3 DEF IndicesOwned
  <2> QED  BY <2>1, <2>2, <2>3
<1>14. IndicesOwned'
  BY <1>7, <1>8, <1>10, <1>11, <1>12, <1>13 DEF IndicesOwned, Sorted
<1> QED  BY <1>1, <1>4, <1>9, <1>14

(* An index is freed.                                                      *)
LEMMA IndexGiven ==
    ASSUME IndicesOwned, NEW k \in Ring, NEW i, i = index[k], i # None,
           freeIndex' = [freeIndex EXCEPT ![Kind(k)] = Freed(@, i)],
           index' = [index EXCEPT ![k] = None]
    PROVE  IndicesOwned'
<1>1. PICK q \in Kinds : q = Kind(k)
  BY Numbers
<1>2. PICK list : list = freeIndex[q]
  OBVIOUS
<1>3. list \in Seq(Slots(q)) /\ Sorted(list) /\ Slots(q) \in SUBSET Nat /\ i \in Slots(q)
  <2>1. Slots(q) \in SUBSET Nat
    BY Numbers DEF Slots
  <2> QED  BY <1>1, <1>2, <2>1 DEF IndicesOwned
<1>4. i \notin ToSet(list)
  BY <1>1, <1>2, <1>3 DEF IndicesOwned
<1>5. PICK new : new = Freed(list, i)
  OBVIOUS
<1>6. new \in Seq(Slots(q)) /\ Sorted(new) /\ ToSet(new) = ToSet(list) \union {i}
  BY <1>3, <1>4, <1>5, PutBack
<1>7. new \in Seq(Nat)
  BY <1>3, <1>6
<1>8. /\ freeIndex' \in [Kinds -> Seq(Nat)] /\ freeIndex'[q] = new
      /\ \A t \in Kinds : t # q => freeIndex'[t] = freeIndex[t]
  BY <1>1, <1>2, <1>5, <1>7 DEF IndicesOwned
<1>9. /\ index' \in [Ring -> Nat \union {None}] /\ index'[k] = None
      /\ \A l \in Ring : l # k => index'[l] = index[l]
  BY DEF IndicesOwned
<1>10. \A l \in Ring : l # k /\ Kind(l) = q => index[l] # i
  BY <1>1 DEF IndicesOwned
<1>11. \A t \in Kinds : freeIndex'[t] \in Seq(Slots(t)) /\ Sorted(freeIndex'[t])
  BY <1>6, <1>8 DEF IndicesOwned
<1>12. \A l \in Ring : index'[l] # None => index'[l] \in Slots(Kind(l))
  BY <1>9 DEF IndicesOwned
<1>13. ASSUME NEW t \in Kinds, NEW j \in Slots(t)
       PROVE  j \in ToSet(freeIndex'[t]) <=> ~\E l \in Ring : Kind(l) = t /\ index'[l] = j
  <2>0. j \in ToSet(freeIndex[t]) <=> ~\E l \in Ring : Kind(l) = t /\ index[l] = j
    BY DEF IndicesOwned
  <2>1. j # None
    BY Numbers DEF Slots
  <2>2. CASE t = q /\ j = i
    <3>1. ~\E l \in Ring : Kind(l) = t /\ index'[l] = j
      BY <1>9, <1>10, <2>1, <2>2
    <3> QED  BY <1>6, <1>8, <2>2, <3>1
  <2>3. CASE t # q \/ j # i
    <3>2. (\E l \in Ring : Kind(l) = t /\ index'[l] = j) <=> (\E l \in Ring : Kind(l) = t /\ index[l] = j)
      BY <1>1, <1>9, <2>1, <2>3
    <3>3. j \in ToSet(freeIndex'[t]) <=> j \in ToSet(freeIndex[t])
      BY <1>2, <1>6, <1>8, <2>3
    <3> QED  BY <2>0, <3>2, <3>3
  <2> QED  BY <2>2, <2>3
<1>14. \A l, m \in Ring : l # m /\ Kind(l) = Kind(m) /\ index'[l] # None => index'[l] # index'[m]
  <2> SUFFICES ASSUME NEW l \in Ring, NEW m \in Ring, l # m, Kind(l) = Kind(m), index'[l] # None
               PROVE  index'[l] # index'[m]
    OBVIOUS
  <2>1. l # k
    BY <1>9
  <2>2. CASE m = k
    BY <1>9, <2>1, <2>2
  <2>3. CASE m # k
    BY <1>9, <2>1, <2>3 DEF IndicesOwned
  <2> QED  BY <2>2, <2>3
<1> QED  BY <1>8, <1>9, <1>11, <1>12, <1>13, <1>14 DEF IndicesOwned, Sorted

-----------------------------------------------------------------------------
(* The invariant.  Where the coroutine stands says which queues of a ring  *)
(* are open: both, unless its completion queue has been opened and the     *)
(* ring not yet, or the ring closed and the completion queue not yet.      *)
StageOf(k) ==
    /\ ToOpen(k) => cqn[k] = None
    /\ index[k] # None => cqn[k] # None
    /\ (\E l \in Half : At(l, k)) <=> cqn[k] # None /\ index[k] = None
    /\ \A l \in Whole : At(l, k) => index[k] # None

Stages ==
    /\ linked \subseteq Ring /\ \A k \in Ring : k \in linked <=> index[k] # None
    /\ \A k \in Ring : StageOf(k)
    /\ AtOff => \A k \in Ring : cqn[k] = None

(* What the registers of an open ring and of its completion queue will be. *)
RingWillBe(k) == \A r \in HwRing, c \in HwCq : RingReg(k) = r /\ cqn[k] = c =>
    /\ ~At("config", k) => CfgEnd(r, k, c)
    /\ At("config", k) \/ At("enable", k) \/ At("unlinkRing", k) => OffEnd(r)
CqWillBe(k) == \A c \in HwCq : cqn[k] = c =>
    /\ ~At("cqConfig", k) => CfgEnd(CqReg(c), k, None)
    /\ OffEnd(CqReg(c)) <=> At("cqConfig", k) \/ At("cqEnable", k) \/ At("closeCq", k)

(* A queue nobody owns will be disabled.                                   *)
SpareRings == \A h \in HwRing :
    (\A k \in Ring : RingReg(k) # h) => OffEnd(h) \/ ToDisable(h)
SpareCqs == \A c \in HwCq :
    (\A k \in Ring : cqn[k] # c) => OffEnd(CqReg(c)) \/ ToDisable(CqReg(c))

RegistersOK ==
    /\ Lands
    /\ \A k \in Ring : RingWillBe(k) /\ CqWillBe(k)
    /\ SpareRings /\ SpareCqs

(* Receive rings are never closed: one that is configured, or will be, for *)
(* a completion queue is linked with it.                                   *)
Serves(h, c) == \E k \in linked : RingReg(k) = h /\ cqn[k] = c
RxServed ==
    \A h \in HwRing, c \in HwCq : h[1] = "rx" =>
        /\ hwRing[h].cq = c => Serves(h, c)
        /\ \A j \in 1 .. Len(posted) :
                Sets(posted, j, h, "config") /\ posted[j].cq = c => Serves(h, c)

(* A completion queue with an event or a completion to be read is that of  *)
(* a linked ring that is not being closed.                                 *)
Leaving(k) == \E l \in Closing : At(l, k)
Known(c) == cqTable[c] # None /\ cqTable[c] \in linked /\ ~Leaving(cqTable[c])
Pending(c) == c \in ToSet(events) \/ hwCq[c].unread > 0
EventsKnown == \A c \in HwCq : Pending(c) => Known(c)

IInv ==
    /\ HwTypes /\ Orderly(program)
    /\ CqsOwned /\ IndicesOwned
    /\ Stages /\ RegistersOK /\ RxServed /\ EventsKnown
    /\ NoCrash

(* The same ring at the same place with the same registers.                *)
SameRing(k) ==
    /\ index'[k] = index[k] /\ cqn'[k] = cqn[k]
    /\ \A l \in Half \union Whole : At(l, k)' <=> At(l, k)
    /\ ToOpen(k)' => ToOpen(k)
    /\ \A r \in HwRing, c \in HwCq : RingReg(k) = r /\ cqn[k] = c =>
        (OffEnd(r)' <=> OffEnd(r)) /\ (CfgEnd(r, k, c)' <=> CfgEnd(r, k, c))
    /\ \A c \in HwCq : cqn[k] = c =>
        /\ OffEnd(CqReg(c))' <=> OffEnd(CqReg(c))
        /\ CfgEnd(CqReg(c), k, None)' <=> CfgEnd(CqReg(c), k, None)

(* A ring whose registers, owner and place in the program stay.            *)
LEMMA SameRingKept ==
    ASSUME NEW k \in Ring, SameRing(k), StageOf(k), RingWillBe(k), CqWillBe(k)
    PROVE  StageOf(k)' /\ RingWillBe(k)' /\ CqWillBe(k)'
<1>1. index'[k] = index[k] /\ cqn'[k] = cqn[k] /\ RingReg(k)' = RingReg(k)
  BY DEF SameRing, RingReg
<1>2. \A l \in Half \union Whole : At(l, k)' <=> At(l, k)
  BY DEF SameRing
<1>3. StageOf(k)'
  BY <1>1, <1>2 DEF SameRing, StageOf
<1>4. RingWillBe(k)'
  <2> SUFFICES ASSUME NEW r \in HwRing, NEW c \in HwCq, RingReg(k)' = r, cqn'[k] = c
               PROVE  /\ ~At("config", k)' => CfgEnd(r, k, c)'
                      /\ At("config", k)' \/ At("enable", k)' \/ At("unlinkRing", k)' => OffEnd(r)'
    BY DEF RingWillBe
  <2>1. /\ At("config", k)' <=> At("config", k)
        /\ At("enable", k)' <=> At("enable", k)
        /\ At("unlinkRing", k)' <=> At("unlinkRing", k)
    BY <1>2 DEF Whole
  <2>2. (OffEnd(r)' <=> OffEnd(r)) /\ (CfgEnd(r, k, c)' <=> CfgEnd(r, k, c))
    BY <1>1 DEF SameRing
  <2> QED  BY <1>1, <2>1, <2>2 DEF RingWillBe
<1>5. CqWillBe(k)'
  <2> SUFFICES ASSUME NEW c \in HwCq, cqn'[k] = c
               PROVE  /\ ~At("cqConfig", k)' => CfgEnd(CqReg(c), k, None)'
                      /\ OffEnd(CqReg(c))' <=>
                            At("cqConfig", k)' \/ At("cqEnable", k)' \/ At("closeCq", k)'
    BY DEF CqWillBe
  <2>1. /\ At("cqConfig", k)' <=> At("cqConfig", k)
        /\ At("cqEnable", k)' <=> At("cqEnable", k)
        /\ At("closeCq", k)' <=> At("closeCq", k)
    BY <1>2 DEF Half
  <2>2. /\ OffEnd(CqReg(c))' <=> OffEnd(CqReg(c))
        /\ CfgEnd(CqReg(c), k, None)' <=> CfgEnd(CqReg(c), k, None)
    BY <1>1 DEF SameRing
  <2> QED  BY <1>1, <2>1, <2>2 DEF CqWillBe
<1> QED  BY <1>3, <1>4, <1>5

(* Receive rings keep being served.                                        *)
LEMMA RxKept ==
    ASSUME RxServed,
           \A h \in HwRing : \/ hwRing'[h].cq = hwRing[h].cq
                             \/ \E j \in 1 .. Len(posted) :
                                    Sets(posted, j, h, "config") /\ posted[j].cq = hwRing'[h].cq,
           \A j \in 1 .. Len(posted') :
                \/ \E i \in 1 .. Len(posted) : posted'[j] = posted[i]
                \/ \A h \in HwRing, c \in HwCq : h[1] = "rx" /\ Sets(posted', j, h, "config")
                        /\ posted'[j].cq = c => Serves(h, c)',
           \A h \in HwRing, c \in HwCq : h[1] = "rx" /\ Serves(h, c) => Serves(h, c)'
    PROVE  RxServed'
<1> SUFFICES ASSUME NEW h \in HwRing, NEW c \in HwCq, h[1] = "rx"
             PROVE  /\ hwRing'[h].cq = c => Serves(h, c)'
                    /\ \A j \in 1 .. Len(posted') :
                            Sets(posted', j, h, "config") /\ posted'[j].cq = c => Serves(h, c)'
  BY DEF RxServed
<1>1. \A j \in 1 .. Len(posted) :
        Sets(posted, j, h, "config") /\ posted[j].cq = c => Serves(h, c)'
  BY DEF RxServed
<1>2. ASSUME hwRing'[h].cq = c PROVE Serves(h, c)'
  <2>1. hwRing[h].cq = c => Serves(h, c)'
    BY DEF RxServed
  <2> QED  BY <1>1, <1>2, <2>1
<1>3. ASSUME NEW j \in 1 .. Len(posted'), Sets(posted', j, h, "config"), posted'[j].cq = c
      PROVE  Serves(h, c)'
  <2>1. CASE \E i \in 1 .. Len(posted) : posted'[j] = posted[i]
    <3>1. PICK i \in 1 .. Len(posted) : posted'[j] = posted[i]
      BY <2>1
    <3>2. Sets(posted, i, h, "config") /\ posted[i].cq = c
      BY <1>3, <3>1 DEF Sets
    <3> QED  BY <1>1, <3>2
  <2> QED  BY <1>3, <2>1
<1> QED  BY <1>2, <1>3

(* Steps that leave the objects and the program alone.                     *)
LEMMA StandsStill ==
    ASSUME IInv, UNCHANGED <<program, objectVars>>, HwTypes', Lands', RegsSame,
           RxServed', EventsKnown', NoCrash'
    PROVE  IInv'
<1>1. \A l, k : At(l, k)' <=> At(l, k)
  BY DEF At
<1>2. \A k : ToOpen(k)' <=> ToOpen(k)
  BY DEF ToOpen
<1>3. \A r : ToDisable(r)' <=> ToDisable(r)
  BY DEF ToDisable
<1>4. \A k \in Ring : RingReg(k)' = RingReg(k)
  BY DEF RingReg, objectVars
<1>5. CqsOwned' /\ IndicesOwned'
  BY DEF IInv, CqsOwned, IndicesOwned, objectVars
<1>6. ASSUME NEW k \in Ring PROVE SameRing(k)
  <2>1. index'[k] = index[k] /\ cqn'[k] = cqn[k]
    BY DEF objectVars
  <2>2. \A r \in HwRing, c \in HwCq :
            (OffEnd(r)' <=> OffEnd(r)) /\ (CfgEnd(r, k, c)' <=> CfgEnd(r, k, c))
    BY Registers DEF RegsSame
  <2>3. \A c \in HwCq : /\ OffEnd(CqReg(c))' <=> OffEnd(CqReg(c))
                        /\ CfgEnd(CqReg(c), k, None)' <=> CfgEnd(CqReg(c), k, None)
    BY Registers DEF RegsSame
  <2> QED  BY <1>1, <1>2, <2>1, <2>2, <2>3 DEF SameRing
<1>7. \A k \in Ring : StageOf(k)' /\ RingWillBe(k)' /\ CqWillBe(k)'
  BY <1>6, SameRingKept DEF IInv, Stages, RegistersOK
<1>8. Stages'
  BY <1>7 DEF IInv, Stages, AtOff, objectVars
<1>9. SpareRings'
  <2>1. \A h \in HwRing : OffEnd(h)' <=> OffEnd(h)
    BY Registers DEF RegsSame
  <2> QED  BY <1>3, <1>4, <2>1 DEF IInv, RegistersOK, SpareRings
<1>10. SpareCqs'
  <2>1. \A c \in HwCq : OffEnd(CqReg(c))' <=> OffEnd(CqReg(c))
    BY Registers DEF RegsSame
  <2> QED  BY <1>3, <2>1 DEF IInv, RegistersOK, SpareCqs, objectVars
<1>11. Orderly(program)'
  BY DEF IInv
<1> QED  BY <1>5, <1>7, <1>8, <1>9, <1>10, <1>11 DEF IInv, RegistersOK

-----------------------------------------------------------------------------
(* Posting a write: Interface and queue methods, and the rearming.         *)
OneMore(reg, do, cq) ==
    \A j \in 1 .. Len(posted') :
        \/ \E i \in 1 .. Len(posted) : posted'[j] = posted[i]
        \/ \A r, d : Sets(posted', j, r, d) => r = reg /\ d = do /\ posted'[j].cq = cq

(* A step that posts one write and leaves the hardware alone.              *)
LEMMA Posts ==
    ASSUME HwTypes, Lands, NEW reg \in Reg \union {EqReg},
           NEW do \in {"enable", "disable", "config", "arm", "read"},
           NEW cfg \in Ring \union {None, 0}, NEW cq \in HwCq \union {None},
           Post(reg, do, cfg, cq),
           WriteOK([reg |-> reg, do |-> do, cfg |-> cfg, cq |-> cq]),
           UNCHANGED <<hwRing, hwCq, events>>, handler'.pc = "cqArm" => handler' = handler,
           do = "config" /\ reg \in Reg => OffEnd(reg)
    PROVE  /\ HwTypes' /\ RegsPosted(reg, do, cfg, cq) /\ Lands'
           /\ reg = EqReg \/ do = "arm" => RegsSame
           /\ OneMore(reg, do, cq)
<1>1. PICK w \in Write : w = [reg |-> reg, do |-> do, cfg |-> cfg, cq |-> cq]
  BY DEF Write
<1>2. w.reg = reg /\ w.do = do /\ w.cfg = cfg /\ w.cq = cq /\ WriteOK(w)
  BY <1>1
<1>3. posted' = Append(posted, w)
  BY <1>1 DEF Post
<1>4. RegsPosted(reg, do, cfg, cq) /\ Lands'
  <2>1. RegsPosted(w.reg, w.do, w.cfg, w.cq)
    BY <1>3, RegsAppended
  <2>2. w.do = "config" /\ w.reg \in Reg => OffEnd(w.reg)
    BY <1>2
  <2>3. Lands'
    BY <1>3, <2>2, RegsAppended
  <2> QED  BY <1>2, <2>1, <2>3
<1>5. PICK ps \in Seq(Write) : ps = posted
  BY DEF HwTypes
<1>6. \A j \in 1 .. Len(posted') :
        \/ j \in 1 .. Len(posted) /\ posted'[j] = posted[j]
        \/ posted'[j] = w
  <2>1. \A j \in 1 .. Len(Append(ps, w)) :
            \/ j \in 1 .. Len(ps) /\ Append(ps, w)[j] = ps[j]
            \/ Append(ps, w)[j] = w
    OBVIOUS
  <2> QED  BY <1>3, <1>5, <2>1
<1>7. HwTypes'
  <2>1. posted' \in Seq(Write)
    BY <1>3, <1>5
  <2>2. \A j \in 1 .. Len(posted') : WriteOK(posted'[j])
    BY <1>2, <1>6 DEF HwTypes
  <2>3. \A j \in 1 .. Len(posted') : WriteOK(posted[j])'
    BY <2>2 DEF WriteOK
  <2> QED  BY <2>1, <2>3 DEF HwTypes
<1>8. reg = EqReg \/ do = "arm" => RegsSame
  <2> SUFFICES ASSUME reg = EqReg \/ do = "arm" PROVE RegsSame
    OBVIOUS
  <2>1. \A r \in Reg : r # reg \/ do = "arm"
    BY Registers
  <2>2. \A r \in Reg : OffEnd(r)' <=> OffEnd(r)
    BY <1>4, <2>1 DEF RegsPosted
  <2>3. \A r \in Reg : \A k, c : CfgEnd(r, k, c)' <=> CfgEnd(r, k, c)
    BY <1>4, <2>1 DEF RegsPosted
  <2> QED  BY <2>2, <2>3 DEF RegsSame
<1>9. OneMore(reg, do, cq)
  BY <1>2, <1>6 DEF Sets, OneMore
<1> QED  BY <1>4, <1>7, <1>8, <1>9

(* Which rings serve a completion queue, and which queues are known.       *)
LEMMA SameServes ==
    ASSUME UNCHANGED <<linked, index, cqn>>
    PROVE  \A h, c : Serves(h, c)' <=> Serves(h, c)
BY DEF Serves, RingReg

(* Which queues the handler knows is decided by these.                     *)
LEMMA SameKnown ==
    ASSUME UNCHANGED <<program, cqTable, linked>>
    PROVE  \A c : Known(c)' <=> Known(c)
BY DEF Known, Leaving, At

(* Steps of the handler and of packets, which write to no queue's register *)
(* but to arm it.                                                          *)
LEMMA Silent ==
    ASSUME IInv, UNCHANGED <<program, objectVars, posted, hwRing, crashed>>, HwTypes',
           \A c \in HwCq : hwCq'[c].on = hwCq[c].on /\ hwCq'[c].cfg = hwCq[c].cfg,
           \A c \in HwCq : Pending(c)' => Pending(c) \/ Known(c)
    PROVE  IInv'
<1>1. RegsSame /\ Lands'
  BY RegsUnchanged DEF IInv, RegistersOK
<1>2. RxServed'
  <2>1. \A h, c : Serves(h, c)' <=> Serves(h, c)
    BY SameServes DEF objectVars
  <2> QED  BY <2>1 DEF IInv, RxServed
<1>3. EventsKnown'
  <2>1. \A c : Known(c)' <=> Known(c)
    BY SameKnown DEF objectVars
  <2> QED  BY <2>1 DEF IInv, EventsKnown
<1>4. NoCrash'
  BY DEF IInv, NoCrash
<1> QED  BY <1>1, <1>2, <1>3, <1>4, StandsStill

(* A step of the handler that arms a queue.                                *)
LEMMA Arms ==
    ASSUME IInv, UNCHANGED <<program, objectVars, hwRing, hwCq, events, crashed>>,
           NEW reg \in Reg \union {EqReg}, reg \notin HwRing, Post(reg, "arm", None, None),
           handler'.pc # "cqArm"
    PROVE  IInv'
<1>1. WriteOK([reg |-> reg, do |-> "arm", cfg |-> None, cq |-> None])
  BY DEF WriteOK
<1>2. HwTypes /\ Lands
  BY DEF IInv, RegistersOK
<1>3. HwTypes' /\ Lands' /\ RegsSame
  BY <1>1, <1>2, Posts
<1>4. OneMore(reg, "arm", None)
  BY <1>1, <1>2, Posts
<1>5. \A h, c : Serves(h, c)' <=> Serves(h, c)
  BY SameServes DEF objectVars
<1>6. RxServed'
  BY <1>4, <1>5, RxKept DEF IInv, OneMore
<1>7. EventsKnown'
  <2>1. \A c : Known(c)' <=> Known(c)
    BY SameKnown DEF objectVars
  <2> QED  BY <2>1 DEF IInv, EventsKnown, Pending
<1>8. NoCrash'
  BY DEF IInv, NoCrash
<1> QED  BY <1>3, <1>6, <1>7, <1>8, StandsStill

(* The interrupt handler: no event is of a queue that is not known.        *)
LEMMA HandlerKeeps == ASSUME IInv, Handler PROVE IInv'
<1> USE DEF IInv
<1>1. CASE TakeInterrupt
  <2>1. UNCHANGED <<program, objectVars, posted, hwRing, crashed, hwCq, events>>
    BY <1>1 DEF TakeInterrupt, testVars
  <2>2. HwTypes'
    <3>1. handler'.pc # "cqArm"
      BY <1>1 DEF TakeInterrupt
    <3> QED  BY <2>1, <3>1 DEF HwTypes, WriteOK
  <2>3. \A c \in HwCq : Pending(c)' => Pending(c)
    BY <2>1 DEF Pending
  <2> QED  BY <2>1, <2>2, <2>3, Silent
<1>2. CASE ScanEvent
  <2>1. PICK c : c = Head(events)
    OBVIOUS
  <2>2. /\ events # <<>> /\ events \in Seq(HwCq) /\ c \in HwCq /\ c \in ToSet(events)
        /\ Tail(events) \in Seq(HwCq) /\ ToSet(Tail(events)) \subseteq ToSet(events)
    <3>1. events # <<>> /\ events \in Seq(HwCq)
      BY <1>2 DEF ScanEvent, HwTypes
    <3> QED  BY <2>1, <3>1 DEF ToSet
  <2>3. cqTable[c] # None /\ cqTable[c] \in linked
    BY <2>2 DEF EventsKnown, Pending, Known
  <2>4. /\ UNCHANGED <<program, objectVars, posted, hwRing, crashed>> /\ events' = Tail(events)
        /\ hwCq' = [hwCq EXCEPT ![c].unread = 0] \/ hwCq' = hwCq
        /\ handler'.pc = "cqArm" /\ handler'.cq = c
    BY <1>2, <2>1, <2>3 DEF ScanEvent, testVars
  <2>5. \A b \in HwCq : /\ hwCq'[b].on = hwCq[b].on /\ hwCq'[b].cfg = hwCq[b].cfg
                        /\ hwCq'[b].unread = hwCq[b].unread \/ hwCq'[b].unread = 0
    <3>1. DOMAIN hwCq = HwCq
      BY DEF HwTypes
    <3>2. DOMAIN hwCq[c] = {"on", "cfg", "armed", "unread"}
      BY <2>2 DEF HwTypes
    <3>3. CASE hwCq' = hwCq
      BY <3>3
    <3>4. CASE hwCq' = [hwCq EXCEPT ![c] = [hwCq[c] EXCEPT !.unread = 0]]
      <4>1. PICK q : q = [hwCq[c] EXCEPT !.unread = 0]
        OBVIOUS
      <4>2. q.on = hwCq[c].on /\ q.cfg = hwCq[c].cfg /\ q.unread = 0
        BY <3>2, <4>1
      <4>3. hwCq'[c] = q /\ \A b \in HwCq : b # c => hwCq'[b] = hwCq[b]
        BY <2>2, <3>1, <3>4, <4>1
      <4> QED  BY <4>2, <4>3
    <3> QED  BY <2>4, <3>3, <3>4
  <2>6. hwCq' \in [HwCq -> [on : BOOLEAN, cfg : Ring \union {None}, armed : BOOLEAN, unread : Nat]]
    <3> DEFINE Q == [on : BOOLEAN, cfg : Ring \union {None}, armed : BOOLEAN, unread : Nat]
    <3>1. hwCq \in [HwCq -> Q]
      BY DEF HwTypes
    <3>2. PICK q \in Q : q = hwCq[c]
      BY <2>2, <3>1
    <3>3. [q EXCEPT !.unread = 0] \in Q
      OBVIOUS
    <3>4. hwCq' = [hwCq EXCEPT ![c] = [q EXCEPT !.unread = 0]] \/ hwCq' = hwCq
      BY <2>4, <3>2
    <3> HIDE DEF Q
    <3> QED  BY <3>1, <3>3, <3>4 DEF Q
  <2>7. HwTypes'
    BY <2>2, <2>4, <2>6 DEF HwTypes, WriteOK
  <2>8. \A b \in HwCq : Pending(b)' => Pending(b)
    BY <2>2, <2>4, <2>5 DEF Pending
  <2> QED  BY <2>4, <2>5, <2>7, <2>8, Silent
<1>3. CASE RearmCq
  <2>1. PICK c \in HwCq : c = handler.cq
    BY <1>3 DEF RearmCq, HwTypes
  <2>2. UNCHANGED <<program, objectVars, hwRing, hwCq, events, crashed>> /\ handler'.pc # "cqArm"
    BY <1>3 DEF RearmCq, testVars, hwVars
  <2>3. CASE cqTable[c] # None
    <3>1. Post(CqReg(c), "arm", None, None)
      BY <1>3, <2>1, <2>3 DEF RearmCq
    <3>2. CqReg(c) \in Reg /\ CqReg(c) \notin HwRing
      BY Registers
    <3> QED  BY <2>2, <3>1, <3>2, Arms
  <2>4. CASE cqTable[c] = None
    <3>1. posted' = posted
      BY <1>3, <2>1, <2>4 DEF RearmCq
    <3>2. HwTypes'
      BY <2>2, <3>1 DEF HwTypes, WriteOK
    <3>3. \A b \in HwCq : Pending(b)' => Pending(b)
      BY <2>2 DEF Pending
    <3> QED  BY <2>2, <3>1, <3>2, <3>3, Silent
  <2> QED  BY <2>3, <2>4
<1>4. CASE EndScan
  <2>1. UNCHANGED <<program, objectVars, posted, hwRing, crashed, hwCq, events>>
    BY <1>4 DEF EndScan, testVars, hwVars
  <2>2. HwTypes'
    <3>1. handler'.pc # "cqArm"
      BY <1>4 DEF EndScan
    <3> QED  BY <2>1, <3>1 DEF HwTypes, WriteOK
  <2>3. \A c \in HwCq : Pending(c)' => Pending(c)
    BY <2>1 DEF Pending
  <2> QED  BY <2>1, <2>2, <2>3, Silent
<1>5. CASE RearmEq
  <2>1. /\ UNCHANGED <<program, objectVars, hwRing, hwCq, events, crashed>>
        /\ handler'.pc # "cqArm" /\ Post(EqReg, "arm", None, None)
    BY <1>5 DEF RearmEq, testVars, hwVars
  <2>2. EqReg \notin HwRing
    BY Registers
  <2> QED  BY <2>1, <2>2, Arms
<1> QED  BY <1>1, <1>2, <1>3, <1>4, <1>5 DEF Handler

(* A posted write arrives.                                                 *)
LEMMA DeliverKeeps == ASSUME IInv, DeliverWrite PROVE IInv'
<1>1. HwTypes /\ Lands
  BY DEF IInv, RegistersOK
<1>2. UNCHANGED <<program, objectVars, crashed>>
  BY DEF DeliverWrite, testVars
<1>3. /\ HwTypes' /\ RegsSame /\ Lands'
      /\ \A c \in HwCq : Pending(c)' => Pending(c)
      /\ \A h \in HwRing : \/ hwRing'[h].cq = hwRing[h].cq
                           \/ \E j \in 1 .. Len(posted) :
                                Sets(posted, j, h, "config") /\ posted[j].cq = hwRing'[h].cq
      /\ \A j \in 1 .. Len(posted') : \E i \in 1 .. Len(posted) : posted'[j] = posted[i]
  BY <1>1, Arrives DEF Pending
<1>4. RxServed'
  <2>1. \A h, c : Serves(h, c)' <=> Serves(h, c)
    BY <1>2, SameServes DEF objectVars
  <2> QED  BY <1>3, <2>1, RxKept DEF IInv
<1>5. EventsKnown'
  <2>1. \A c : Known(c)' <=> Known(c)
    BY <1>2, SameKnown DEF objectVars
  <2> QED  BY <1>3, <2>1 DEF IInv, EventsKnown
<1>6. NoCrash'
  BY <1>2 DEF IInv, NoCrash
<1> QED  BY <1>2, <1>3, <1>4, <1>5, <1>6, StandsStill

(* A ring that runs completes to a queue that is known: a receive ring to  *)
(* one it is linked with, as receive rings are not closed; a transmit ring *)
(* only while it is not being closed, when nothing is posted to it.        *)
LEMMA CompletesKnown ==
    ASSUME IInv, NEW h \in HwRing, hwRing[h].on, hwRing[h].cq # None, Sendable(h),
           NEW c, c = hwRing[h].cq
    PROVE  c \in HwCq /\ Known(c)
<1> USE DEF IInv
<1>1. c \in HwCq
  BY DEF HwTypes
<1>2. CASE h[1] = "rx"
  <2>1. Serves(h, c)
    BY <1>1, <1>2 DEF RxServed
  <2>2. PICK k \in linked : RingReg(k) = h /\ cqn[k] = c
    BY <2>1 DEF Serves
  <2>3. k \in Ring /\ index[k] # None /\ cqTable[c] = k
    BY <1>1, <2>2 DEF Stages, CqsOwned
  <2>4. Kind(k) = "rx"
    BY <1>2, <2>2, <2>3 DEF RingReg
  <2>5. ~Leaving(k)
    BY <2>3, <2>4, AtOne, TxRings DEF Leaving
  <2> QED  BY <1>1, <2>2, <2>3, <2>5, Numbers DEF Known
<1>3. CASE h[1] # "rx"
  <2>1. /\ program = <<>> /\ \E k \in linked : RingReg(k) = h
        /\ ~\E j \in DOMAIN posted : posted[j].reg = h
    BY <1>3 DEF Sendable
  <2>2. PICK k \in linked : RingReg(k) = h
    BY <2>1
  <2>3. k \in Ring /\ index[k] # None
    BY <2>2 DEF Stages
  <2>4. PICK b \in HwCq : b = cqn[k]
    BY <2>3 DEF Stages, StageOf, CqsOwned
  <2>5. cqTable[b] = k
    BY <2>3, <2>4 DEF CqsOwned
  <2>6. CfgEnd(h, k, b)
    <3>1. ~At("config", k)
      BY <2>1 DEF At
    <3> QED  BY <2>2, <2>3, <2>4, <3>1 DEF RegistersOK, RingWillBe
  <2>7. Holds(h, k, b)
    <3>1. \A j \in 1 .. Len(posted) : ~Sets(posted, j, h, "config")
      <4>1. posted \in Seq(Write)
        BY DEF HwTypes
      <4>2. DOMAIN posted = 1 .. Len(posted)
        BY <4>1
      <4> QED  BY <2>1, <4>2 DEF Sets
    <3>2. PICK holds \in BOOLEAN : holds = Holds(h, k, b)
      BY RegTypes
    <3>3. CfgIn(posted, holds, h, k, b)
      BY <2>6, <3>2 DEF CfgEnd
    <3>4. holds
      BY <3>1, <3>3 DEF CfgIn
    <3> QED  BY <3>2, <3>4
  <2>8. c = b
    BY <2>7 DEF Holds
  <2>9. ~Leaving(k)
    BY <2>1 DEF Leaving, At
  <2> QED  BY <1>1, <2>2, <2>3, <2>5, <2>8, <2>9, Numbers DEF Known
<1> QED  BY <1>2, <1>3

(* A packet's completion, and its event, are of a queue that is known.     *)
LEMMA CompleteKeeps == ASSUME IInv, NEW h \in HwRing, Complete(h) PROVE IInv'
<1>1. PICK c : c = hwRing[h].cq
  OBVIOUS
<1>2. c \in HwCq /\ Known(c)
  <2>1. hwRing[h].on /\ hwRing[h].cq # None /\ Sendable(h)
    BY DEF Complete
  <2> QED  BY <1>1, <2>1, CompletesKnown
<1>3. /\ UNCHANGED <<program, objectVars, posted, hwRing, crashed, handler>>
      /\ hwCq' = [hwCq EXCEPT ![c].unread = @ + 1, ![c].armed = FALSE]
      /\ events' = events \/ events' = Append(events, c)
  BY <1>1 DEF Complete, RaiseEvent, testVars
<1>4. HwTypes
  BY DEF IInv
<1> DEFINE Q == [on : BOOLEAN, cfg : Ring \union {None}, armed : BOOLEAN, unread : Nat]
<1>5. PICK q \in Q : q = hwCq[c]
  BY <1>2, <1>4 DEF HwTypes
<1>6. PICK m : m = [q EXCEPT !.unread = q.unread + 1]
  OBVIOUS
<1>7. PICK n : n = [m EXCEPT !.armed = FALSE]
  OBVIOUS
<1>8. n \in Q /\ n.on = q.on /\ n.cfg = q.cfg
  <2>1. q.unread + 1 \in Nat
    OBVIOUS
  <2>2. m \in Q /\ m.on = q.on /\ m.cfg = q.cfg
    BY <1>6, <2>1
  <2> QED  BY <1>7, <2>2
<1>9. hwCq \in [HwCq -> Q] /\ hwCq' = [hwCq EXCEPT ![c] = n]
  <2>1. hwCq \in [HwCq -> Q]
    BY <1>4 DEF HwTypes
  <2>2. PICK H : H = [hwCq EXCEPT ![c] = m]
    OBVIOUS
  <2>3. hwCq' = [H EXCEPT ![c] = [m EXCEPT !.armed = FALSE]]
    BY <1>2, <1>3, <1>5, <1>6, <2>1, <2>2
  <2> QED  BY <1>7, <2>1, <2>2, <2>3
<1>10. hwCq' \in [HwCq -> Q] /\ hwCq'[c] = n /\ \A b \in HwCq : b # c => hwCq'[b] = hwCq[b]
  <2> HIDE DEF Q
  <2> QED  BY <1>2, <1>8, <1>9
<1>11. /\ events' \in Seq(HwCq)
       /\ \A b \in ToSet(events') : b \in ToSet(events) \/ b = c
  <2>1. CASE events' = events
    BY <1>4, <2>1 DEF HwTypes
  <2>2. CASE events' = Append(events, c)
    <3>1. PICK e \in Seq(HwCq) : e = events
      BY <1>4 DEF HwTypes
    <3>2. Append(e, c) \in Seq(HwCq) /\ ToSet(Append(e, c)) = ToSet(e) \union {c}
      BY <1>2, <3>1, AppendSet
    <3>3. events' \in Seq(HwCq) /\ ToSet(events') = ToSet(events) \union {c}
      BY <2>2, <3>1, <3>2
    <3> QED  BY <3>3
  <2> QED  BY <1>3, <2>1, <2>2
<1>12. HwTypes'
  BY <1>3, <1>4, <1>10, <1>11 DEF HwTypes, WriteOK
<1>13. \A b \in HwCq : hwCq'[b].on = hwCq[b].on /\ hwCq'[b].cfg = hwCq[b].cfg
  BY <1>5, <1>8, <1>10
<1>14. \A b \in HwCq : Pending(b)' => Pending(b) \/ Known(b)
  BY <1>2, <1>10, <1>11 DEF Pending
<1> QED  BY <1>3, <1>12, <1>13, <1>14, Silent

-----------------------------------------------------------------------------
(* The coroutine's steps                                                   *)

(* What is done is the head of the program, and what it is.                *)
LEMMA Doings ==
    ASSUME Orderly(program), NEW op, Doing(op)
    PROVE  /\ program # <<>> /\ Head(program) \in ProgramStep /\ StepOK(Head(program))
           /\ Head(program).op = op
           /\ op \in Calls => At(op, Head(program).ring) /\ Label(Head(program)) = op
           /\ op = "write" => At(Head(program).reg, Head(program).ring)
                              /\ Label(Head(program)) = Head(program).reg
           /\ op = "disable" => AtOff /\ Disables(Head(program), Head(program).reg)
                                /\ Head(program).reg \in Reg \union {EqReg}
<1>1. program # <<>> /\ Head(program).op = op
  BY DEF Doing
<1>2. Head(program) \in ProgramStep /\ StepOK(Head(program))
  BY <1>1, TailOrderly
<1>3. /\ op = "write" => Label(Head(program)) = Head(program).reg
      /\ op = "disable" => Label(Head(program)) = "off"
      /\ op \in Calls => Label(Head(program)) = op
      /\ Label(Head(program)) = "off" => Head(program).reg \in Reg \union {EqReg}
  BY <1>1, <1>2, Labels
<1> QED  BY <1>1, <1>2, <1>3 DEF At, AtOff, Disables

(* A step of ring k writes at most to r0, a register of k or of nobody.    *)
RingStep(k, r0) ==
    /\ program # <<>> /\ program' = Tail(program)
    /\ \E l \in Half \union Whole \union {"openCq"} : At(l, k)
    /\ Leaves \/ \E m : Goes(m, k)
    /\ \A j \in Ring \ {k} : index'[j] = index[j] /\ cqn'[j] = cqn[j]
    /\ \A r \in Reg : r # r0 =>
        (OffEnd(r)' <=> OffEnd(r)) /\ \A i, c : CfgEnd(r, i, c)' <=> CfgEnd(r, i, c)
    /\ \A j \in Ring \ {k} : RingReg(j) # r0 /\ \A c \in HwCq : cqn[j] = c => CqReg(c) # r0

(* A step of ring k that writes to r0 disturbs no other ring.              *)
LEMMA OthersKept ==
    ASSUME IInv, NEW k \in Ring, NEW r0, RingStep(k, r0)
    PROVE  /\ Orderly(program)' /\ ~AtOff'
           /\ \A j \in Ring \ {k} : StageOf(j)' /\ RingWillBe(j)' /\ CqWillBe(j)'
           /\ \A r \in Reg : r # r0 /\ (OffEnd(r) \/ ToDisable(r)) => OffEnd(r)' \/ ToDisable(r)'
<1>1. Orderly(program) /\ program # <<>> /\ program' = Tail(program)
  BY DEF IInv, RingStep
<1>2. PICK l \in Half \union Whole \union {"openCq"} : At(l, k)
  BY DEF RingStep
<1>3. ~AtOff
  BY <1>1, <1>2, AtOne
<1>4. ~AtOff' /\ Orderly(program)'
  BY <1>1, <1>3, Advances
<1>5. ASSUME NEW j \in Ring \ {k} PROVE StageOf(j)' /\ RingWillBe(j)' /\ CqWillBe(j)'
  <2>1. \A n \in Half \union Whole : ~At(n, j)
    BY <1>1, <1>2, AtOne
  <2>2. \A n \in Half \union Whole : ~At(n, j)'
    BY DEF RingStep, Goes, Leaves
  <2>3. ToOpen(j)' => ToOpen(j)
    BY <1>1, Advances
  <2>4. \A r \in HwRing, c \in HwCq : RingReg(j) = r /\ cqn[j] = c =>
            (OffEnd(r)' <=> OffEnd(r)) /\ (CfgEnd(r, j, c)' <=> CfgEnd(r, j, c))
    BY Registers DEF RingStep
  <2>5. \A c \in HwCq : cqn[j] = c =>
            /\ OffEnd(CqReg(c))' <=> OffEnd(CqReg(c))
            /\ CfgEnd(CqReg(c), j, None)' <=> CfgEnd(CqReg(c), j, None)
    BY Registers DEF RingStep
  <2>6. index'[j] = index[j] /\ cqn'[j] = cqn[j]
    BY DEF RingStep
  <2>7. SameRing(j)
    BY <2>1, <2>2, <2>3, <2>4, <2>5, <2>6 DEF SameRing
  <2>8. StageOf(j) /\ RingWillBe(j) /\ CqWillBe(j)
    BY DEF IInv, Stages, RegistersOK
  <2> QED  BY <2>7, <2>8, SameRingKept
<1>6. ASSUME NEW r \in Reg, r # r0, OffEnd(r) \/ ToDisable(r)
      PROVE  OffEnd(r)' \/ ToDisable(r)'
  <2>1. OffEnd(r)' <=> OffEnd(r)
    BY <1>6 DEF RingStep
  <2>2. ToDisable(r) => ToDisable(r)' \/ Disables(Head(program), r)
    BY <1>1, Advances
  <2>3. ~Disables(Head(program), r)
    BY <1>1, <1>3 DEF Disables, AtOff
  <2> QED  BY <1>6, <2>1, <2>2, <2>3
<1> QED  BY <1>4, <1>5, <1>6

(* The ring that a step opens or closes is its own affair: what remains is *)
(* to be shown of k and of the register r0.                                *)
LEMMA RingStepKeeps ==
    ASSUME IInv, NEW k \in Ring, NEW r0, RingStep(k, r0),
           HwTypes', Lands', RxServed', EventsKnown', NoCrash', CqsOwned', IndicesOwned',
           linked' \subseteq Ring, \A j \in Ring : j \in linked' <=> index'[j] # None,
           StageOf(k)', RingWillBe(k)', CqWillBe(k)',
           \A h \in HwRing : (\A j \in Ring : RingReg(j)' # h) =>
                (r0 # h /\ (\A j \in Ring : RingReg(j) # h)) \/ OffEnd(h)',
           \A c \in HwCq : (\A j \in Ring : cqn'[j] # c) =>
                (r0 # CqReg(c) /\ (\A j \in Ring : cqn[j] # c)) \/ OffEnd(CqReg(c))'
    PROVE  IInv'
<1>1. /\ Orderly(program)' /\ ~AtOff'
      /\ \A j \in Ring : StageOf(j)' /\ RingWillBe(j)' /\ CqWillBe(j)'
      /\ \A r \in Reg : r # r0 /\ (OffEnd(r) \/ ToDisable(r)) => OffEnd(r)' \/ ToDisable(r)'
  BY OthersKept
<1>2. SpareRings /\ SpareCqs
  BY DEF IInv, RegistersOK
<1>3. SpareRings'
  <2> SUFFICES ASSUME NEW h \in HwRing, \A j \in Ring : RingReg(j)' # h
               PROVE  OffEnd(h)' \/ ToDisable(h)'
    BY DEF SpareRings
  <2> QED  BY <1>1, <1>2, Registers DEF SpareRings
<1>4. SpareCqs'
  <2> SUFFICES ASSUME NEW c \in HwCq, \A j \in Ring : cqn'[j] # c
               PROVE  OffEnd(CqReg(c))' \/ ToDisable(CqReg(c))'
    BY DEF SpareCqs
  <2> QED  BY <1>1, <1>2, Registers DEF SpareCqs
<1>5. Stages'
  BY <1>1 DEF Stages
<1>6. RegistersOK'
  BY <1>1, <1>3, <1>4 DEF RegistersOK
<1> QED  BY <1>1, <1>5, <1>6 DEF IInv

(* Registers of a ring are of no other.                                    *)
LEMMA NotShared ==
    ASSUME IInv, NEW k \in Ring, NEW r0,
           \/ \E c \in HwCq : cqn[k] = c /\ r0 = CqReg(c)
           \/ index[k] # None /\ r0 = RingReg(k)
    PROVE  \A j \in Ring \ {k} : RingReg(j) # r0 /\ \A c \in HwCq : cqn[j] = c => CqReg(c) # r0
<1> SUFFICES ASSUME NEW j \in Ring \ {k}
             PROVE  RingReg(j) # r0 /\ \A c \in HwCq : cqn[j] = c => CqReg(c) # r0
  OBVIOUS
<1>1. \A i \in Ring : RingReg(i)[1] \in Kinds
  BY OwnRegister, Numbers DEF IInv
<1>2. \A c \in HwCq : CqReg(c)[1] \notin Kinds /\ CqReg(c)[2] = c
  BY Registers DEF Kinds
<1>3. CASE \E c \in HwCq : cqn[k] = c /\ r0 = CqReg(c)
  <2>1. PICK c \in HwCq : cqn[k] = c /\ r0 = CqReg(c)
    BY <1>3
  <2>2. cqn[j] # c
    BY <2>1 DEF IInv, CqsOwned
  <2> QED  BY <1>1, <1>2, <2>1, <2>2
<1>4. CASE index[k] # None /\ r0 = RingReg(k)
  <2>1. RingReg(j) # RingReg(k)
    BY <1>4, OwnRegister DEF IInv
  <2> QED  BY <1>1, <1>2, <1>4, <2>1
<1> QED  BY <1>3, <1>4

(* The parts of a step that posts a write to a register of its own ring.   *)
LEMMA OwnerPosts ==
    ASSUME IInv, NEW k \in Ring, NEW l \in Half \union Whole, At(l, k),
           program' = Tail(program), Leaves \/ \E m : Goes(m, k),
           UNCHANGED <<objectVars, hwRing, hwCq, events, handler, crashed>>,
           NEW c \in HwCq, cqn[k] = c,
           NEW r0, r0 = CqReg(c) \/ (index[k] # None /\ r0 = RingReg(k)),
           NEW do \in {"enable", "disable", "config", "arm", "read"},
           NEW cfg \in Ring \union {None, 0}, NEW cq \in HwCq \union {None}, Post(r0, do, cfg, cq),
           WriteOK([reg |-> r0, do |-> do, cfg |-> cfg, cq |-> cq]),
           do = "config" => OffEnd(r0) /\ (r0 \in HwRing => cq = c),
           (\E n \in Half : At(n, k)') <=> l \in Half,
           (\E n \in Whole : At(n, k)') => l \in Whole,
           Leaving(k)' => Leaving(k)
    PROVE  /\ RegsPosted(r0, do, cfg, cq) /\ r0 \in Reg
           /\ RingWillBe(k)' /\ CqWillBe(k)' => IInv'
<1>1. program # <<>>
  BY DEF At
<1>2. r0 \in Reg
  BY Registers, OwnRegister DEF IInv
<1>3. HwTypes /\ Lands
  BY DEF IInv, RegistersOK
<1>4. /\ RegsPosted(r0, do, cfg, cq) /\ HwTypes' /\ Lands' /\ OneMore(r0, do, cq)
  <2>1. UNCHANGED <<hwRing, hwCq, events>> /\ (handler'.pc = "cqArm" => handler' = handler)
    OBVIOUS
  <2>2. do = "config" /\ r0 \in Reg => OffEnd(r0)
    OBVIOUS
  <2> QED  BY <1>2, <1>3, <2>1, <2>2, Posts
<1>5. RingStep(k, r0)
  <2>1. \A r \in Reg : r # r0 =>
            (OffEnd(r)' <=> OffEnd(r)) /\ \A i, b : CfgEnd(r, i, b)' <=> CfgEnd(r, i, b)
    BY <1>4 DEF RegsPosted
  <2>2. \A j \in Ring \ {k} : RingReg(j) # r0 /\ \A b \in HwCq : cqn[j] = b => CqReg(b) # r0
    BY NotShared
  <2> QED  BY <1>1, <2>1, <2>2 DEF RingStep, objectVars
<1>6. /\ index' = index /\ cqn' = cqn /\ linked' = linked /\ cqTable' = cqTable
      /\ \A j : RingReg(j)' = RingReg(j)
  BY DEF objectVars, RingReg
<1>7. CqsOwned' /\ IndicesOwned' /\ NoCrash'
  BY DEF IInv, CqsOwned, IndicesOwned, objectVars, NoCrash
<1>8. \A h, b : Serves(h, b)' <=> Serves(h, b)
  BY <1>6, SameServes
<1>9. RxServed'
  <2>1. ASSUME r0 \in HwRing, do = "config" PROVE Serves(r0, cq)'
    <3>1. index[k] # None /\ r0 = RingReg(k)
      BY <2>1, Registers
    <3>2. k \in linked /\ cqn[k] = cq
      BY <2>1, <3>1 DEF IInv, Stages
    <3> QED  BY <1>8, <3>1, <3>2 DEF Serves
  <2>2. \A j \in 1 .. Len(posted') :
            \/ \E i \in 1 .. Len(posted) : posted'[j] = posted[i]
            \/ \A h \in HwRing, b \in HwCq : h[1] = "rx" /\ Sets(posted', j, h, "config")
                    /\ posted'[j].cq = b => Serves(h, b)'
    BY <1>4, <2>1 DEF OneMore
  <2> QED  BY <1>8, <2>2, RxKept DEF IInv
<1>10. EventsKnown'
  <2>1. \A j \in Ring : Leaving(j)' => Leaving(j)
    <3> SUFFICES ASSUME NEW j \in Ring, j # k, Leaving(j)' PROVE FALSE
      OBVIOUS
    <3>1. \A n \in Half \union Whole : ~At(n, j)'
      BY DEF Goes, Leaves
    <3> QED  BY <3>1 DEF Leaving, Closing, Half, Whole
  <2>2. \A b \in HwCq : cqTable[b] \in Ring \union {None}
    BY DEF IInv, CqsOwned
  <2>3. \A b \in HwCq : Known(b) => Known(b)'
    BY <1>6, <2>1, <2>2 DEF Known
  <2>4. \A b \in HwCq : Pending(b)' <=> Pending(b)
    BY DEF Pending
  <2> QED  BY <2>3, <2>4 DEF IInv, EventsKnown
<1>11. Stages
  BY DEF IInv
<1>12. StageOf(k)'
  <2>1. StageOf(k)
    BY <1>11 DEF Stages
  <2>2. ToOpen(k)' => ToOpen(k)
    BY <1>1, Advances DEF IInv
  <2>3. (\E n \in Half : At(n, k)) <=> l \in Half
    BY AtOne DEF IInv
  <2>4. l \in Whole => index[k] # None
    BY <2>1 DEF StageOf
  <2> QED  BY <1>6, <2>1, <2>2, <2>3, <2>4 DEF StageOf
<1>13. ASSUME NEW h \in HwRing, \A j \in Ring : RingReg(j)' # h
       PROVE  r0 # h /\ (\A j \in Ring : RingReg(j) # h)
  <2>1. \A j \in Ring : RingReg(j) # h
    BY <1>6, <1>13
  <2> QED  BY <2>1, Registers
<1>14. ASSUME NEW b \in HwCq, \A j \in Ring : cqn'[j] # b
       PROVE  r0 # CqReg(b) /\ (\A j \in Ring : cqn[j] # b)
  <2>1. \A j \in Ring : cqn[j] # b
    BY <1>6, <1>14
  <2>2. c # b
    BY <2>1
  <2>3. index[k] # None => RingReg(k) \in HwRing
    BY OwnRegister DEF IInv
  <2> QED  BY <2>1, <2>2, <2>3, Registers
<1>15. linked' \subseteq Ring /\ \A j \in Ring : j \in linked' <=> index'[j] # None
  BY <1>6, <1>11 DEF Stages
<1>16. ASSUME RingWillBe(k)', CqWillBe(k)' PROVE IInv'
  BY <1>4, <1>5, <1>7, <1>9, <1>10, <1>12, <1>13, <1>14, <1>15, <1>16, RingStepKeeps
<1> QED  BY <1>2, <1>4, <1>16

(* The writes that configure, enable and arm the queues of a ring.         *)
LEMMA RingWrites ==
    ASSUME IInv, PostWrite, NEW k, k = Head(program).ring,
           NEW l \in {"cqConfig", "cqEnable", "cqArm", "config", "enable", "disable"},
           l = Head(program).reg
    PROVE  IInv'
<1>1. /\ Orderly(program) /\ program # <<>> /\ program' = Tail(program) /\ At(l, k)
      /\ Label(Head(program)) = l
  BY Doings DEF IInv, PostWrite, Proceed, Doing
<1>2. UNCHANGED <<objectVars, hwRing, hwCq, events, handler, crashed>>
  BY DEF PostWrite, hwVars
<1>3. l \in Half \union Whole
  BY DEF Half, Whole
<1>4. k \in Ring /\ (\A n : At(n, k) => n = l) /\ (l \in Closing => k \in TxRing)
  BY <1>1, <1>3, AtOne
<1>5. StageOf(k) /\ RingWillBe(k) /\ CqWillBe(k)
  BY <1>4 DEF IInv, Stages, RegistersOK
<1>6. /\ l \in Half => cqn[k] # None /\ index[k] = None
      /\ l \in Whole => cqn[k] # None /\ index[k] # None
  BY <1>1, <1>5 DEF StageOf
<1>7. PICK c \in HwCq : c = cqn[k]
  BY <1>3, <1>4, <1>6 DEF IInv, CqsOwned
<1>8. cqn'[k] = c /\ cqn[k] = c /\ index'[k] = index[k] /\ RingReg(k)' = RingReg(k)
  BY <1>2, <1>7 DEF objectVars, RingReg
<1>9. /\ CqReg(c) \in Reg /\ CqReg(c) \notin HwRing /\ CqReg(c) # EqReg
      /\ l \in Whole => RingReg(k) \in HwRing /\ RingReg(k) \in Reg
      /\ l \in Half => RingReg(k) \notin HwRing
      /\ RingReg(k) # CqReg(c)
  <2>1. l \in Whole => RingReg(k) \in HwRing
    BY <1>4, <1>6, OwnRegister DEF IInv
  <2>2. l \in Half => RingReg(k) \notin HwRing
    BY <1>4, <1>6, OwnRegister DEF IInv
  <2>3. RingReg(k) # CqReg(c)
    <3>1. RingReg(k)[1] \in Kinds
      BY <1>4, OwnRegister, Numbers DEF IInv
    <3> QED  BY <3>1, Registers DEF Kinds
  <2> QED  BY <2>1, <2>2, <2>3, Registers
<1>10. CASE l = "cqConfig"
  <2>1. Post(CqReg(c), "config", k, None)
    BY <1>10, <1>7 DEF PostWrite, ThisRing
  <2>2. Goes("cqEnable", k)
    BY <1>1, <1>10, NextAt
  <2>3. \A n \in Half \union Whole : At(n, k)' <=> n = "cqEnable"
    BY <2>2 DEF Goes
  <2>4. /\ (\E n \in Half : At(n, k)') <=> l \in Half
        /\ (\E n \in Whole : At(n, k)') => l \in Whole
        /\ l \in Half
    BY <1>10, <2>3 DEF Half, Whole
  <2>5. Leaving(k)' => Leaving(k)
    BY <2>3 DEF Leaving, Closing, Half, Whole
  <2>6. WriteOK([reg |-> CqReg(c), do |-> "config", cfg |-> k, cq |-> None])
    BY <1>4, <1>9, <2>4, Registers DEF WriteOK
  <2>7. OffEnd(CqReg(c)) /\ (CqReg(c) \in HwRing => None = c)
    BY <1>1, <1>5, <1>10, <1>7, <1>9, <2>4 DEF CqWillBe
  <2>8. RegsPosted(CqReg(c), "config", k, None)
    BY <1>2, <1>1, <1>3, <1>4, <1>6, <1>7, <2>1, <2>2, <2>4, <2>5, <2>6, <2>7, OwnerPosts
  <2>9. RingWillBe(k)'
    BY <1>8, <1>9, <2>4 DEF RingWillBe
  <2>10. CqWillBe(k)'
    <3>1. SUFFICES /\ ~At("cqConfig", k)' => CfgEnd(CqReg(c), k, None)'
                   /\ OffEnd(CqReg(c))' <=>
                        At("cqConfig", k)' \/ At("cqEnable", k)' \/ At("closeCq", k)'
      BY <1>8 DEF CqWillBe
    <3>2. \A n \in Half : At(n, k) <=> n = "cqConfig"
      BY <1>1, <1>4, <1>10
    <3>3. /\ ~At("cqConfig", k) => CfgEnd(CqReg(c), k, None)
          /\ OffEnd(CqReg(c)) <=> At("cqConfig", k) \/ At("cqEnable", k) \/ At("closeCq", k)
      BY <1>5, <1>7 DEF CqWillBe
    <3> QED  BY <1>9, <2>3, <2>8, <3>2, <3>3 DEF RegsPosted, Half
  <2> QED  BY <1>2, <1>1, <1>3, <1>4, <1>6, <1>7, <2>1, <2>2, <2>4, <2>5, <2>6, <2>7, <2>9, <2>10, OwnerPosts
<1>11. CASE l = "cqEnable"
  <2>1. Post(CqReg(c), "enable", None, None)
    BY <1>11, <1>7 DEF PostWrite, ThisRing
  <2>2. Goes("cqArm", k)
    BY <1>1, <1>11, NextAt
  <2>3. \A n \in Half \union Whole : At(n, k)' <=> n = "cqArm"
    BY <2>2 DEF Goes
  <2>4. /\ (\E n \in Half : At(n, k)') <=> l \in Half
        /\ (\E n \in Whole : At(n, k)') => l \in Whole
        /\ l \in Half
    BY <1>11, <2>3 DEF Half, Whole
  <2>5. Leaving(k)' => Leaving(k)
    BY <2>3 DEF Leaving, Closing, Half, Whole
  <2>6. WriteOK([reg |-> CqReg(c), do |-> "enable", cfg |-> None, cq |-> None])
    BY <1>4, <1>9, <2>4, Registers DEF WriteOK
  <2>8. RegsPosted(CqReg(c), "enable", None, None)
    BY <1>2, <1>1, <1>3, <1>4, <1>6, <1>7, <2>1, <2>2, <2>4, <2>5, <2>6, OwnerPosts
  <2>9. RingWillBe(k)'
    BY <1>8, <1>9, <2>4 DEF RingWillBe
  <2>10. CqWillBe(k)'
    <3>1. SUFFICES /\ ~At("cqConfig", k)' => CfgEnd(CqReg(c), k, None)'
                   /\ OffEnd(CqReg(c))' <=>
                        At("cqConfig", k)' \/ At("cqEnable", k)' \/ At("closeCq", k)'
      BY <1>8 DEF CqWillBe
    <3>2. \A n \in Half : At(n, k) <=> n = "cqEnable"
      BY <1>1, <1>4, <1>11
    <3>3. /\ ~At("cqConfig", k) => CfgEnd(CqReg(c), k, None)
          /\ OffEnd(CqReg(c)) <=> At("cqConfig", k) \/ At("cqEnable", k) \/ At("closeCq", k)
      BY <1>5, <1>7 DEF CqWillBe
    <3> QED  BY <1>9, <2>3, <2>8, <3>2, <3>3 DEF RegsPosted, Half
  <2> QED  BY <1>2, <1>1, <1>3, <1>4, <1>6, <1>7, <2>1, <2>2, <2>4, <2>5, <2>6, <2>9, <2>10, OwnerPosts
<1>12. CASE l = "cqArm"
  <2>1. Post(CqReg(c), "arm", None, None)
    BY <1>12, <1>7 DEF PostWrite, ThisRing
  <2>2. Goes("openRing", k)
    BY <1>1, <1>12, NextAt
  <2>3. \A n \in Half \union Whole : At(n, k)' <=> n = "openRing"
    BY <2>2 DEF Goes
  <2>4. /\ (\E n \in Half : At(n, k)') <=> l \in Half
        /\ (\E n \in Whole : At(n, k)') => l \in Whole
        /\ l \in Half
    BY <1>12, <2>3 DEF Half, Whole
  <2>5. Leaving(k)' => Leaving(k)
    BY <2>3 DEF Leaving, Closing, Half, Whole
  <2>6. WriteOK([reg |-> CqReg(c), do |-> "arm", cfg |-> None, cq |-> None])
    BY <1>4, <1>9, <2>4, Registers DEF WriteOK
  <2>8. RegsPosted(CqReg(c), "arm", None, None)
    BY <1>2, <1>1, <1>3, <1>4, <1>6, <1>7, <2>1, <2>2, <2>4, <2>5, <2>6, OwnerPosts
  <2>9. RingWillBe(k)'
    BY <1>8, <1>9, <2>4 DEF RingWillBe
  <2>10. CqWillBe(k)'
    <3>1. SUFFICES /\ ~At("cqConfig", k)' => CfgEnd(CqReg(c), k, None)'
                   /\ OffEnd(CqReg(c))' <=>
                        At("cqConfig", k)' \/ At("cqEnable", k)' \/ At("closeCq", k)'
      BY <1>8 DEF CqWillBe
    <3>2. \A n \in Half : At(n, k) <=> n = "cqArm"
      BY <1>1, <1>4, <1>12
    <3>3. /\ ~At("cqConfig", k) => CfgEnd(CqReg(c), k, None)
          /\ OffEnd(CqReg(c)) <=> At("cqConfig", k) \/ At("cqEnable", k) \/ At("closeCq", k)
      BY <1>5, <1>7 DEF CqWillBe
    <3> QED  BY <1>9, <2>3, <2>8, <3>2, <3>3 DEF RegsPosted, Half
  <2> QED  BY <1>2, <1>1, <1>3, <1>4, <1>6, <1>7, <2>1, <2>2, <2>4, <2>5, <2>6, <2>9, <2>10, OwnerPosts
<1>13. CASE l = "config"
  <2>1. Post(RingReg(k), "config", k, c)
    BY <1>13, <1>7 DEF PostWrite, ThisRing
  <2>2. Goes("enable", k)
    BY <1>1, <1>13, NextAt
  <2>3. \A n \in Half \union Whole : At(n, k)' <=> n = "enable"
    BY <2>2 DEF Goes
  <2>4. /\ (\E n \in Half : At(n, k)') <=> l \in Half
        /\ (\E n \in Whole : At(n, k)') => l \in Whole
        /\ l \in Whole
    BY <1>13, <2>3 DEF Half, Whole
  <2>5. Leaving(k)' => Leaving(k)
    BY <2>3 DEF Leaving, Closing, Half, Whole
  <2>6. WriteOK([reg |-> RingReg(k), do |-> "config", cfg |-> k, cq |-> c])
    BY <1>4, <1>9, <2>4, Registers DEF WriteOK
  <2>7. OffEnd(RingReg(k)) /\ (RingReg(k) \in HwRing => c = c)
    BY <1>1, <1>5, <1>13, <1>7, <1>9, <2>4 DEF RingWillBe
  <2>8. RegsPosted(RingReg(k), "config", k, c)
    BY <1>2, <1>1, <1>3, <1>4, <1>6, <1>7, <2>1, <2>2, <2>4, <2>5, <2>6, <2>7, OwnerPosts
  <2>9. RingWillBe(k)'
    <3>1. SUFFICES /\ ~At("config", k)' => CfgEnd(RingReg(k), k, c)'
                   /\ At("config", k)' \/ At("enable", k)' \/ At("unlinkRing", k)' => OffEnd(RingReg(k))'
      BY <1>8 DEF RingWillBe
    <3>2. \A n \in Whole : At(n, k) <=> n = "config"
      BY <1>1, <1>4, <1>13
    <3>3. /\ ~At("config", k) => CfgEnd(RingReg(k), k, c)
          /\ At("config", k) \/ At("enable", k) \/ At("unlinkRing", k) => OffEnd(RingReg(k))
      BY <1>5, <1>7, <1>9, <2>4 DEF RingWillBe
    <3>4. PICK r \in Reg : r = RingReg(k) /\ RingReg(k)' = r
      BY <1>8, <1>9, <2>4
    <3> QED  BY <2>3, <2>8, <3>2, <3>3, <3>4 DEF RegsPosted, Whole
  <2>10. CqWillBe(k)'
    <3>1. SUFFICES /\ ~At("cqConfig", k)' => CfgEnd(CqReg(c), k, None)'
                   /\ OffEnd(CqReg(c))' <=>
                        At("cqConfig", k)' \/ At("cqEnable", k)' \/ At("closeCq", k)'
      BY <1>8 DEF CqWillBe
    <3>2. \A n \in Half : ~At(n, k)
      BY <1>4, <1>13 DEF Half
    <3>3. /\ CfgEnd(CqReg(c), k, None) /\ ~OffEnd(CqReg(c))
      BY <1>5, <1>7, <3>2 DEF CqWillBe, Half
    <3> QED  BY <1>9, <2>3, <2>8, <3>3 DEF RegsPosted, Half
  <2> QED  BY <1>2, <1>1, <1>3, <1>4, <1>6, <1>7, <2>1, <2>2, <2>4, <2>5, <2>6, <2>7, <2>9, <2>10, OwnerPosts
<1>14. CASE l = "enable"
  <2>1. Post(RingReg(k), "enable", None, None)
    BY <1>14, <1>7 DEF PostWrite, ThisRing
  <2>2. Leaves
    BY <1>1, <1>14, Unchained
  <2>3. \A n \in Half \union Whole : At(n, k)' <=> FALSE
    BY <2>2 DEF Leaves
  <2>4. /\ (\E n \in Half : At(n, k)') <=> l \in Half
        /\ (\E n \in Whole : At(n, k)') => l \in Whole
        /\ l \in Whole
    BY <1>14, <2>3 DEF Half, Whole
  <2>5. Leaving(k)' => Leaving(k)
    BY <2>3 DEF Leaving, Closing, Half, Whole
  <2>6. WriteOK([reg |-> RingReg(k), do |-> "enable", cfg |-> None, cq |-> None])
    BY <1>4, <1>9, <2>4, Registers DEF WriteOK
  <2>8. RegsPosted(RingReg(k), "enable", None, None)
    BY <1>2, <1>1, <1>3, <1>4, <1>6, <1>7, <2>1, <2>2, <2>4, <2>5, <2>6, OwnerPosts
  <2>9. RingWillBe(k)'
    <3>1. SUFFICES /\ ~At("config", k)' => CfgEnd(RingReg(k), k, c)'
                   /\ At("config", k)' \/ At("enable", k)' \/ At("unlinkRing", k)' => OffEnd(RingReg(k))'
      BY <1>8 DEF RingWillBe
    <3>2. \A n \in Whole : At(n, k) <=> n = "enable"
      BY <1>1, <1>4, <1>14
    <3>3. /\ ~At("config", k) => CfgEnd(RingReg(k), k, c)
          /\ At("config", k) \/ At("enable", k) \/ At("unlinkRing", k) => OffEnd(RingReg(k))
      BY <1>5, <1>7, <1>9, <2>4 DEF RingWillBe
    <3>4. PICK r \in Reg : r = RingReg(k) /\ RingReg(k)' = r
      BY <1>8, <1>9, <2>4
    <3> QED  BY <2>3, <2>8, <3>2, <3>3, <3>4 DEF RegsPosted, Whole
  <2>10. CqWillBe(k)'
    <3>1. SUFFICES /\ ~At("cqConfig", k)' => CfgEnd(CqReg(c), k, None)'
                   /\ OffEnd(CqReg(c))' <=>
                        At("cqConfig", k)' \/ At("cqEnable", k)' \/ At("closeCq", k)'
      BY <1>8 DEF CqWillBe
    <3>2. \A n \in Half : ~At(n, k)
      BY <1>4, <1>14 DEF Half
    <3>3. /\ CfgEnd(CqReg(c), k, None) /\ ~OffEnd(CqReg(c))
      BY <1>5, <1>7, <3>2 DEF CqWillBe, Half
    <3> QED  BY <1>9, <2>3, <2>8, <3>3 DEF RegsPosted, Half
  <2> QED  BY <1>2, <1>1, <1>3, <1>4, <1>6, <1>7, <2>1, <2>2, <2>4, <2>5, <2>6, <2>9, <2>10, OwnerPosts
<1>15. CASE l = "disable"
  <2>1. Post(RingReg(k), "disable", None, None)
    BY <1>15, <1>7 DEF PostWrite, ThisRing
  <2>2. Goes("unlinkRing", k)
    BY <1>1, <1>15, NextAt
  <2>3. \A n \in Half \union Whole : At(n, k)' <=> n = "unlinkRing"
    BY <2>2 DEF Goes
  <2>4. /\ (\E n \in Half : At(n, k)') <=> l \in Half
        /\ (\E n \in Whole : At(n, k)') => l \in Whole
        /\ l \in Whole
    BY <1>15, <2>3 DEF Half, Whole
  <2>5. Leaving(k)' => Leaving(k)
    BY <1>1, <1>15 DEF Leaving, Closing
  <2>6. WriteOK([reg |-> RingReg(k), do |-> "disable", cfg |-> None, cq |-> None])
    BY <1>4, <1>9, <2>4, Registers DEF WriteOK
  <2>8. RegsPosted(RingReg(k), "disable", None, None)
    BY <1>2, <1>1, <1>3, <1>4, <1>6, <1>7, <2>1, <2>2, <2>4, <2>5, <2>6, OwnerPosts
  <2>9. RingWillBe(k)'
    <3>1. SUFFICES /\ ~At("config", k)' => CfgEnd(RingReg(k), k, c)'
                   /\ At("config", k)' \/ At("enable", k)' \/ At("unlinkRing", k)' => OffEnd(RingReg(k))'
      BY <1>8 DEF RingWillBe
    <3>2. \A n \in Whole : At(n, k) <=> n = "disable"
      BY <1>1, <1>4, <1>15
    <3>3. /\ ~At("config", k) => CfgEnd(RingReg(k), k, c)
          /\ At("config", k) \/ At("enable", k) \/ At("unlinkRing", k) => OffEnd(RingReg(k))
      BY <1>5, <1>7, <1>9, <2>4 DEF RingWillBe
    <3>4. PICK r \in Reg : r = RingReg(k) /\ RingReg(k)' = r
      BY <1>8, <1>9, <2>4
    <3> QED  BY <2>3, <2>8, <3>2, <3>3, <3>4 DEF RegsPosted, Whole
  <2>10. CqWillBe(k)'
    <3>1. SUFFICES /\ ~At("cqConfig", k)' => CfgEnd(CqReg(c), k, None)'
                   /\ OffEnd(CqReg(c))' <=>
                        At("cqConfig", k)' \/ At("cqEnable", k)' \/ At("closeCq", k)'
      BY <1>8 DEF CqWillBe
    <3>2. \A n \in Half : ~At(n, k)
      BY <1>4, <1>15 DEF Half
    <3>3. /\ CfgEnd(CqReg(c), k, None) /\ ~OffEnd(CqReg(c))
      BY <1>5, <1>7, <3>2 DEF CqWillBe, Half
    <3> QED  BY <1>9, <2>3, <2>8, <3>3 DEF RegsPosted, Half
  <2> QED  BY <1>2, <1>1, <1>3, <1>4, <1>6, <1>7, <2>1, <2>2, <2>4, <2>5, <2>6, <2>9, <2>10, OwnerPosts
<1> QED  BY <1>10, <1>11, <1>12, <1>13, <1>14, <1>15

(* Steps of no ring: of the event queue, the port and the end.             *)
LEMMA FreeStep ==
    ASSUME IInv, program # <<>>, program' = Tail(program), Label(Head(program)) \in Free,
           UNCHANGED <<objectVars, hwRing, hwCq, events, handler, crashed>>,
           NEW do \in {"enable", "disable", "config", "arm", "read"}, NEW cfg \in {None, 0},
           posted' = posted \/ Post(EqReg, do, cfg, None)
    PROVE  IInv'
<1>1. Orderly(program) /\ HwTypes /\ Lands /\ Stages
  BY DEF IInv, RegistersOK
<1>2. Orderly(program)' /\ Leaves
  BY <1>1, Advances, Unchained
<1>3. \A n \in Half \union Whole : \A j : ~At(n, j) /\ ~At(n, j)'
  BY <1>2 DEF Leaves, At, Half, Whole, Free
<1>4. ~AtOff /\ ~AtOff'
  <2>1. ~AtOff
    BY DEF AtOff, Free
  <2> QED  BY <1>1, <2>1, Advances
<1>5. /\ index' = index /\ cqn' = cqn /\ linked' = linked /\ cqTable' = cqTable
      /\ freeIndex' = freeIndex /\ freeCq' = freeCq
      /\ \A j : RingReg(j)' = RingReg(j)
  BY DEF objectVars, RingReg
<1>6. HwTypes' /\ Lands' /\ RegsSame
  <2>1. CASE posted' = posted
    <3>1. Lands' /\ RegsSame
      BY <1>1, <2>1, RegsUnchanged
    <3>2. HwTypes'
      BY <1>1, <2>1 DEF HwTypes, WriteOK
    <3> QED  BY <3>1, <3>2
  <2>2. CASE Post(EqReg, do, cfg, None)
    <3>1. WriteOK([reg |-> EqReg, do |-> do, cfg |-> cfg, cq |-> None])
      BY Registers DEF WriteOK
    <3>2. ~(do = "config" /\ EqReg \in Reg)
      BY Registers
    <3> QED  BY <1>1, <2>2, <3>1, <3>2, Posts
  <2> QED  BY <2>1, <2>2
<1>7. RxServed'
  <2>1. \A h, b : Serves(h, b)' <=> Serves(h, b)
    BY <1>5, SameServes
  <2>2. CASE posted' = posted
    BY <2>1, <2>2 DEF IInv, RxServed
  <2>3. CASE Post(EqReg, do, cfg, None)
    <3>1. WriteOK([reg |-> EqReg, do |-> do, cfg |-> cfg, cq |-> None])
      BY Registers DEF WriteOK
    <3>2. ~(do = "config" /\ EqReg \in Reg)
      BY Registers
    <3>3. OneMore(EqReg, do, None)
      BY <1>1, <2>3, <3>1, <3>2, Posts
    <3>4. \A h \in HwRing : h # EqReg
      BY Registers
    <3> QED  BY <2>1, <3>3, <3>4, RxKept DEF IInv, OneMore
  <2> QED  BY <2>2, <2>3
<1>8. EventsKnown'
  <2>1. \A b : Known(b) => Known(b)'
    BY <1>3, <1>5 DEF Known, Leaving, Closing, Half, Whole
  <2>2. \A b \in HwCq : Pending(b)' <=> Pending(b)
    BY DEF Pending
  <2> QED  BY <2>1, <2>2 DEF IInv, EventsKnown
<1>9. CqsOwned' /\ IndicesOwned' /\ NoCrash'
  BY <1>5 DEF IInv, CqsOwned, IndicesOwned, NoCrash
<1>10. ASSUME NEW k \in Ring PROVE StageOf(k)' /\ RingWillBe(k)' /\ CqWillBe(k)'
  <2>1. \A r \in HwRing, c \in HwCq :
            (OffEnd(r)' <=> OffEnd(r)) /\ (CfgEnd(r, k, c)' <=> CfgEnd(r, k, c))
    BY <1>6, Registers DEF RegsSame
  <2>2. \A c \in HwCq : /\ OffEnd(CqReg(c))' <=> OffEnd(CqReg(c))
                        /\ CfgEnd(CqReg(c), k, None)' <=> CfgEnd(CqReg(c), k, None)
    BY <1>6, Registers DEF RegsSame
  <2>3. ToOpen(k)' => ToOpen(k)
    BY <1>1, Advances
  <2>4. SameRing(k)
    BY <1>3, <1>5, <2>1, <2>2, <2>3 DEF SameRing
  <2> QED  BY <2>4, SameRingKept DEF IInv, Stages, RegistersOK
<1>11. Stages'
  BY <1>1, <1>4, <1>5, <1>10 DEF Stages
<1>12. SpareRings' /\ SpareCqs'
  <2>1. \A r \in Reg : ToDisable(r) => ToDisable(r)'
    BY <1>1, <1>4, Advances DEF Disables, AtOff
  <2>2. \A r \in Reg : OffEnd(r)' <=> OffEnd(r)
    BY <1>6 DEF RegsSame
  <2>3. SpareRings'
    BY <1>5, <2>1, <2>2, Registers DEF IInv, RegistersOK, SpareRings
  <2>4. SpareCqs'
    BY <1>5, <2>1, <2>2, Registers DEF IInv, RegistersOK, SpareCqs
  <2> QED  BY <2>3, <2>4
<1> QED  BY <1>2, <1>6, <1>7, <1>8, <1>9, <1>10, <1>11, <1>12 DEF IInv, RegistersOK

(* Interface.init disables a queue, whoever had enabled it before.         *)
LEMMA DisableKeeps == ASSUME IInv, DisableQueue PROVE IInv'
<1>1. PICK reg : reg = Head(program).reg
  OBVIOUS
<1>2. /\ Orderly(program) /\ program # <<>> /\ program' = Tail(program)
      /\ AtOff /\ reg \in Reg \union {EqReg} /\ \A r : Disables(Head(program), r) => r = reg
  BY <1>1, Doings DEF IInv, DisableQueue, Proceed, Doing, Disables
<1>3. /\ Post(reg, "disable", None, None)
      /\ UNCHANGED <<objectVars, hwRing, hwCq, events, handler, crashed>>
  BY <1>1 DEF DisableQueue, hwVars
<1>4. Orderly(program)' /\ Leaves
  <2>1. Label(Head(program)) = "off"
    BY <1>2 DEF AtOff
  <2> QED  BY <1>2, <2>1, Advances, Unchained
<1>5. /\ index' = index /\ cqn' = cqn /\ linked' = linked /\ cqTable' = cqTable
      /\ freeIndex' = freeIndex /\ freeCq' = freeCq
      /\ \A j : RingReg(j)' = RingReg(j)
  BY <1>3 DEF objectVars, RingReg
<1>6. /\ \A k \in Ring : cqn[k] = None /\ index[k] = None
      /\ linked = {}
  BY <1>2 DEF IInv, Stages, StageOf
<1>7. HwTypes /\ Lands /\ IndicesOwned
  BY DEF IInv, RegistersOK
<1>8. HwTypes' /\ Lands' /\ RegsPosted(reg, "disable", None, None) /\ OneMore(reg, "disable", None)
  <2>1. WriteOK([reg |-> reg, do |-> "disable", cfg |-> None, cq |-> None])
    BY DEF WriteOK
  <2> QED  BY <1>2, <1>3, <1>7, <2>1, Posts
<1>9. RxServed'
  <2>1. \A h, b : Serves(h, b)' <=> Serves(h, b)
    BY <1>5, SameServes
  <2> QED  BY <1>3, <1>8, <2>1, RxKept DEF IInv, OneMore
<1>10. EventsKnown'
  <2>1. \A b \in HwCq : ~Pending(b)
    BY <1>6 DEF IInv, EventsKnown, Known
  <2> QED  BY <1>3, <2>1 DEF EventsKnown, Pending
<1>11. CqsOwned' /\ IndicesOwned' /\ NoCrash'
  BY <1>3, <1>5 DEF IInv, CqsOwned, IndicesOwned, NoCrash
<1>12. \A k \in Ring : StageOf(k)'
  BY <1>4, <1>5, <1>6 DEF StageOf, Leaves
<1>13. Stages'
  BY <1>5, <1>6, <1>12 DEF Stages
<1>14. \A k \in Ring : RingWillBe(k)' /\ CqWillBe(k)'
  <2>1. \A k \in Ring : RingReg(k)' \notin HwRing
    BY <1>5, <1>6, <1>7, OwnRegister
  <2>2. \A k \in Ring : cqn'[k] \notin HwCq
    BY <1>5, <1>6, Numbers
  <2> QED  BY <2>1, <2>2 DEF RingWillBe, CqWillBe
<1>15. \A r \in Reg : OffEnd(r) \/ ToDisable(r) => OffEnd(r)' \/ ToDisable(r)'
  <2> SUFFICES ASSUME NEW r \in Reg, OffEnd(r) \/ ToDisable(r) PROVE OffEnd(r)' \/ ToDisable(r)'
    OBVIOUS
  <2>1. CASE r = reg
    BY <1>8, <2>1 DEF RegsPosted
  <2>2. CASE r # reg
    <3>1. OffEnd(r)' <=> OffEnd(r)
      BY <1>8, <2>2 DEF RegsPosted
    <3>2. ToDisable(r) => ToDisable(r)'
      BY <1>2, <2>2, Advances
    <3> QED  BY <3>1, <3>2
  <2> QED  BY <2>1, <2>2
<1>16. SpareRings' /\ SpareCqs'
  <2>1. SpareRings'
    BY <1>5, <1>15, Registers DEF IInv, RegistersOK, SpareRings
  <2>2. SpareCqs'
    BY <1>5, <1>15, Registers DEF IInv, RegistersOK, SpareCqs
  <2> QED  BY <2>1, <2>2
<1> QED  BY <1>4, <1>8, <1>9, <1>10, <1>11, <1>13, <1>14, <1>16 DEF IInv, RegistersOK

(* None names no register.                                                 *)
LEMMA NoneNowhere ==
    /\ \A q : <<q, None>> \notin HwRing
    /\ None \notin HwCq
BY Registers, Numbers

(* What stays true of other rings' services and of known queues.           *)
LEMMA ServesKept ==
    ASSUME NEW k, \A j \in linked \ {k} : j \in linked' /\ index'[j] = index[j] /\ cqn'[j] = cqn[j],
           NEW h, k \in linked => RingReg(k) # h
    PROVE  \A c : Serves(h, c) => Serves(h, c)'
<1> SUFFICES ASSUME NEW c, Serves(h, c) PROVE Serves(h, c)'
  OBVIOUS
<1>1. PICK j \in linked : RingReg(j) = h /\ cqn[j] = c
  BY DEF Serves
<1>2. j # k /\ j \in linked' /\ RingReg(j)' = RingReg(j) /\ cqn'[j] = cqn[j]
  BY <1>1 DEF RingReg
<1> QED  BY <1>1, <1>2 DEF Serves

(* Cq.open, up to the await of its first write: its queue was free.        *)
LEMMA OpenCqKeeps == ASSUME IInv, OpenCq PROVE IInv'
<1>1. PICK k : k = Head(program).ring
  OBVIOUS
<1>2. PICK c : c = Head(freeCq)
  OBVIOUS
<1>3. /\ Orderly(program) /\ program # <<>> /\ program' = Tail(program) /\ At("openCq", k)
      /\ k \in Ring
  <2>1. Orderly(program) /\ Doing("openCq") /\ program' = Tail(program)
    BY DEF IInv, OpenCq, Proceed
  <2>2. program # <<>> /\ At("openCq", k)
    BY <1>1, <2>1, Doings DEF Calls
  <2> QED  BY <2>1, <2>2, AtOne
<1>4. /\ freeCq' = Tail(freeCq) /\ cqn' = [cqn EXCEPT ![k] = c]
      /\ cqTable' = [cqTable EXCEPT ![c] = k] /\ Post(CqReg(c), "disable", None, None)
      /\ UNCHANGED <<freeIndex, index, linked, hwRing, hwCq, events, handler, crashed>>
  BY <1>1, <1>2 DEF OpenCq, ThisRing, Allocated, hwVars
<1>5. Goes("cqConfig", k)
  BY <1>3, NextAt
<1>6. ToOpen(k) /\ ~ToOpen(k)'
  BY <1>3, Advances
<1>7. /\ \A j \in Ring : StageOf(j) /\ (j \in linked <=> index[j] # None)
      /\ linked \subseteq Ring /\ CqsOwned /\ IndicesOwned /\ HwTypes /\ Lands
  BY DEF IInv, Stages, RegistersOK
<1>8. cqn[k] = None /\ index[k] = None /\ k \notin linked
  BY <1>3, <1>6, <1>7 DEF StageOf
<1>9. CqsOwned' /\ c \in HwCq /\ \A j \in Ring : cqn[j] # c
  BY <1>2, <1>3, <1>4, <1>7, <1>8, CqTaken
<1>10. /\ CqReg(c) \in Reg /\ CqReg(c) \notin HwRing
       /\ \A b \in HwCq : CqReg(b) = CqReg(c) => b = c
  BY <1>9, Registers
<1>11. /\ HwTypes' /\ Lands' /\ RegsPosted(CqReg(c), "disable", None, None)
       /\ OneMore(CqReg(c), "disable", None)
  <2>1. WriteOK([reg |-> CqReg(c), do |-> "disable", cfg |-> None, cq |-> None])
    BY <1>10 DEF WriteOK
  <2> QED  BY <1>4, <1>7, <1>10, <2>1, Posts
<1>12. \A j \in Ring \ {k} : cqn'[j] = cqn[j] /\ index'[j] = index[j]
  BY <1>4, <1>7 DEF CqsOwned
<1>13. cqn'[k] = c /\ index' = index /\ \A j : RingReg(j)' = RingReg(j)
  BY <1>3, <1>4, <1>7 DEF CqsOwned, RingReg
<1>14. RingStep(k, CqReg(c))
  <2>1. \A r \in Reg : r # CqReg(c) =>
            (OffEnd(r)' <=> OffEnd(r)) /\ \A i, b : CfgEnd(r, i, b)' <=> CfgEnd(r, i, b)
    BY <1>11 DEF RegsPosted
  <2>2. \A j \in Ring : RingReg(j)[1] \in Kinds
    BY <1>7, OwnRegister, Numbers
  <2>3. CqReg(c)[1] \notin Kinds
    BY <1>9, Registers DEF Kinds
  <2>4. \A j \in Ring \ {k} : RingReg(j) # CqReg(c) /\ \A b \in HwCq : cqn[j] = b => CqReg(b) # CqReg(c)
    BY <1>9, <1>10, <2>2, <2>3
  <2> QED  BY <1>3, <1>5, <1>12, <2>1, <2>4 DEF RingStep
<1>15. StageOf(k)'
  <2>1. \A n \in Half \union Whole : At(n, k)' <=> n = "cqConfig"
    BY <1>5 DEF Goes
  <2> QED  BY <1>6, <1>8, <1>9, <1>13, <2>1, NoneNowhere DEF StageOf, Half, Whole
<1>16. RingWillBe(k)'
  <2>1. RingReg(k)' \notin HwRing
    BY <1>3, <1>7, <1>8, <1>13, OwnRegister
  <2> QED  BY <2>1 DEF RingWillBe
<1>17. CqWillBe(k)'
  <2>1. At("cqConfig", k)'
    BY <1>5 DEF Goes, Half
  <2>2. OffEnd(CqReg(c))'
    BY <1>10, <1>11 DEF RegsPosted
  <2> QED  BY <1>13, <2>1, <2>2 DEF CqWillBe
<1>18. RxServed'
  <2>1. \A h, b : Serves(h, b) => Serves(h, b)'
    BY <1>4, <1>7, <1>8, <1>12, ServesKept
  <2>2. \A h \in HwRing : h # CqReg(c)
    BY <1>10
  <2> QED  BY <1>4, <1>11, <2>1, <2>2, RxKept DEF IInv, OneMore
<1>19. EventsKnown'
  <2>1. ASSUME NEW b \in HwCq, Known(b) PROVE Known(b)'
    <3>1. cqTable[b] \in linked /\ cqTable[b] \in Ring
      BY <1>7, <2>1 DEF Known
    <3>2. b # c
      BY <1>7, <1>9, <3>1 DEF CqsOwned
    <3>3. cqTable'[b] = cqTable[b]
      BY <1>4, <1>7, <3>2 DEF CqsOwned
    <3>4. \A j : ~Leaving(j)'
      BY <1>5 DEF Leaving, Goes, Closing, Half, Whole
    <3> QED  BY <1>4, <2>1, <3>3, <3>4 DEF Known
  <2>2. \A b \in HwCq : Pending(b)' <=> Pending(b)
    BY <1>4 DEF Pending
  <2> QED  BY <2>1, <2>2 DEF IInv, EventsKnown
<1>20. IndicesOwned' /\ NoCrash'
  BY <1>4 DEF IInv, IndicesOwned, NoCrash
<1>21. linked' \subseteq Ring /\ \A j \in Ring : j \in linked' <=> index'[j] # None
  BY <1>4, <1>7
<1>22. \A h \in HwRing : (\A j \in Ring : RingReg(j)' # h) =>
                CqReg(c) # h /\ (\A j \in Ring : RingReg(j) # h)
  BY <1>10, <1>13
<1>23. \A b \in HwCq : (\A j \in Ring : cqn'[j] # b) =>
                CqReg(c) # CqReg(b) /\ (\A j \in Ring : cqn[j] # b)
  BY <1>3, <1>8, <1>10, <1>12, <1>13, NoneNowhere
<1> QED
  BY <1>3, <1>9, <1>11, <1>14, <1>15, <1>16, <1>17, <1>18, <1>19, <1>20, <1>21, <1>22, <1>23,
     RingStepKeeps

(* Txq.open and Rxq.open, up to the await of their first write.            *)
LEMMA OpenRingKeeps == ASSUME IInv, OpenTxqOrRxq PROVE IInv'
<1>1. PICK k : k = Head(program).ring
  OBVIOUS
<1>2. PICK i : i = Head(freeIndex[Kind(k)])
  OBVIOUS
<1>3. PICK r0 : r0 = <<Kind(k), i>>
  OBVIOUS
<1>4. /\ Orderly(program) /\ program # <<>> /\ program' = Tail(program) /\ At("openRing", k)
      /\ k \in Ring
  <2>1. Orderly(program) /\ Doing("openRing") /\ program' = Tail(program)
    BY DEF IInv, OpenTxqOrRxq, Proceed
  <2>2. program # <<>> /\ At("openRing", k)
    BY <1>1, <2>1, Doings DEF Calls
  <2> QED  BY <2>1, <2>2, AtOne DEF Half
<1>5. /\ freeIndex' = [freeIndex EXCEPT ![Kind(k)] = Tail(@)] /\ index' = [index EXCEPT ![k] = i]
      /\ linked' = linked \union {k} /\ Post(r0, "disable", None, None)
      /\ UNCHANGED <<freeCq, cqn, cqTable, hwRing, hwCq, events, handler, crashed>>
  BY <1>1, <1>2, <1>3 DEF OpenTxqOrRxq, ThisRing, Allocated, Linked, hwVars
<1>6. Goes("config", k)
  BY <1>4, NextAt
<1>7. /\ \A j \in Ring : StageOf(j) /\ CqWillBe(j) /\ (j \in linked <=> index[j] # None)
      /\ linked \subseteq Ring /\ CqsOwned /\ IndicesOwned /\ HwTypes /\ Lands
  BY DEF IInv, Stages, RegistersOK
<1>8. cqn[k] # None /\ index[k] = None /\ k \notin linked
  BY <1>4, <1>7 DEF StageOf, Half
<1>9. PICK c \in HwCq : c = cqn[k]
  BY <1>4, <1>7, <1>8 DEF CqsOwned
<1>10. IndicesOwned' /\ i \in Slots(Kind(k)) /\ \A j \in Ring : Kind(j) = Kind(k) => index[j] # i
  BY <1>2, <1>4, <1>5, <1>7, <1>8, IndexTaken
<1>11. r0 \in HwRing /\ r0 \in Reg /\ i # None
  <2>1. Kind(k) \in Kinds /\ i \in 0 .. Count(Kind(k)) - 1
    BY <1>4, <1>10, Numbers DEF Slots
  <2>2. i \in Nat
    BY <2>1, Numbers
  <2> QED  BY <1>3, <2>1, <2>2, Registers, Numbers
<1>12. /\ HwTypes' /\ Lands' /\ RegsPosted(r0, "disable", None, None)
       /\ OneMore(r0, "disable", None)
  <2>1. WriteOK([reg |-> r0, do |-> "disable", cfg |-> None, cq |-> None])
    BY <1>11 DEF WriteOK
  <2> QED  BY <1>5, <1>7, <1>11, <2>1, Posts
<1>13. \A j \in Ring \ {k} : /\ cqn'[j] = cqn[j] /\ index'[j] = index[j]
                             /\ RingReg(j)' = RingReg(j)
  BY <1>5, <1>7 DEF IndicesOwned, RingReg
<1>14. cqn' = cqn /\ index'[k] = i /\ RingReg(k)' = r0
  BY <1>3, <1>4, <1>5, <1>7 DEF IndicesOwned, RingReg
<1>15. \A b \in HwCq : CqReg(b) # r0
  BY <1>11, Registers
<1>16. RingStep(k, r0)
  <2>1. \A r \in Reg : r # r0 =>
            (OffEnd(r)' <=> OffEnd(r)) /\ \A j, b : CfgEnd(r, j, b)' <=> CfgEnd(r, j, b)
    BY <1>12 DEF RegsPosted
  <2>2. \A j \in Ring : RingReg(j) # r0
    BY <1>3, <1>7, <1>10, OwnRegister
  <2>3. At("openRing", k) /\ "openRing" \in Half
    BY <1>4 DEF Half
  <2> QED  BY <1>4, <1>6, <1>13, <1>15, <2>1, <2>2, <2>3 DEF RingStep
<1>17. \A n \in Half \union Whole : At(n, k)' <=> n = "config"
  BY <1>6 DEF Goes
<1>18. StageOf(k)'
  <2>1. ~ToOpen(k)'
    <3>1. ~ToOpen(k)
      BY <1>4, <1>7, <1>8 DEF StageOf
    <3> QED  BY <1>4, <3>1, Advances
  <2> QED  BY <1>8, <1>11, <1>14, <1>17, <2>1 DEF StageOf, Half, Whole
<1>19. RingWillBe(k)'
  <2>1. At("config", k)'
    BY <1>17 DEF Whole
  <2>2. OffEnd(r0)'
    BY <1>11, <1>12 DEF RegsPosted
  <2> QED  BY <1>14, <2>1, <2>2 DEF RingWillBe
<1>20. CqWillBe(k)'
  <2>1. \A n \in Half : At(n, k) <=> n = "openRing"
    BY <1>4, AtOne
  <2>2. CfgEnd(CqReg(c), k, None) /\ ~OffEnd(CqReg(c))
    BY <1>4, <1>7, <1>9, <2>1 DEF CqWillBe, Half
  <2>3. CfgEnd(CqReg(c), k, None)' /\ ~OffEnd(CqReg(c))'
    BY <1>12, <1>15, <2>2, Registers DEF RegsPosted
  <2> QED  BY <1>9, <1>14, <1>17, <2>3 DEF CqWillBe, Half
<1>21. RxServed'
  <2>1. \A h, b : Serves(h, b) => Serves(h, b)'
    BY <1>5, <1>8, <1>13, ServesKept
  <2> QED  BY <1>5, <1>12, <2>1, RxKept DEF IInv, OneMore
<1>22. EventsKnown'
  <2>1. \A j : ~Leaving(j)'
    BY <1>6 DEF Leaving, Goes, Closing, Half, Whole
  <2>2. \A b \in HwCq : Known(b) => Known(b)'
    BY <1>5, <2>1 DEF Known
  <2>3. \A b \in HwCq : Pending(b)' <=> Pending(b)
    BY <1>5 DEF Pending
  <2> QED  BY <2>2, <2>3 DEF IInv, EventsKnown
<1>23. CqsOwned' /\ NoCrash'
  BY <1>5 DEF IInv, CqsOwned, NoCrash
<1>24. linked' \subseteq Ring /\ \A j \in Ring : j \in linked' <=> index'[j] # None
  BY <1>4, <1>5, <1>7, <1>11, <1>13, <1>14
<1>25. \A h \in HwRing : (\A j \in Ring : RingReg(j)' # h) =>
                r0 # h /\ (\A j \in Ring : RingReg(j) # h)
  <2>1. RingReg(k) \notin HwRing
    BY <1>4, <1>7, <1>8, OwnRegister
  <2> QED  BY <1>4, <1>13, <1>14, <2>1
<1>26. \A b \in HwCq : (\A j \in Ring : cqn'[j] # b) =>
                r0 # CqReg(b) /\ (\A j \in Ring : cqn[j] # b)
  BY <1>14, <1>15
<1> QED
  BY <1>4, <1>10, <1>12, <1>16, <1>18, <1>19, <1>20, <1>21, <1>22, <1>23, <1>24, <1>25, <1>26,
     RingStepKeeps

(* Txq.close after its write: the ring's register has been disabled.       *)
LEMMA UnlinkKeeps == ASSUME IInv, UnlinkRing PROVE IInv'
<1>1. PICK k : k = Head(program).ring
  OBVIOUS
<1>2. PICK i : i = index[k]
  OBVIOUS
<1>3. /\ Orderly(program) /\ program # <<>> /\ program' = Tail(program) /\ At("unlinkRing", k)
      /\ k \in Ring /\ k \in TxRing
  <2>1. Orderly(program) /\ Doing("unlinkRing") /\ program' = Tail(program)
    BY DEF IInv, UnlinkRing, Proceed
  <2>2. program # <<>> /\ At("unlinkRing", k)
    BY <1>1, <2>1, Doings DEF Calls
  <2> QED  BY <2>1, <2>2, AtOne DEF Whole, Closing
<1>4. /\ \A j \in Ring : StageOf(j) /\ RingWillBe(j) /\ CqWillBe(j) /\ (j \in linked <=> index[j] # None)
      /\ linked \subseteq Ring /\ CqsOwned /\ IndicesOwned /\ HwTypes /\ Lands
  BY DEF IInv, Stages, RegistersOK
<1>5. cqn[k] # None /\ index[k] # None
  BY <1>3, <1>4 DEF StageOf, Whole
<1>6. PICK c \in HwCq : c = cqn[k]
  BY <1>3, <1>4, <1>5 DEF CqsOwned
<1>7. /\ freeIndex' = [freeIndex EXCEPT ![Kind(k)] = Freed(@, i)]
      /\ index' = [index EXCEPT ![k] = None]
      /\ linked' = linked \ {k} /\ Post(CqReg(c), "disable", None, None)
      /\ UNCHANGED <<freeCq, cqn, cqTable, hwRing, hwCq, events, handler, crashed>>
  BY <1>1, <1>2, <1>6 DEF UnlinkRing, ThisRing, hwVars
<1>8. Goes("closeCq", k)
  BY <1>3, NextAt
<1>9. IndicesOwned'
  BY <1>2, <1>3, <1>4, <1>5, <1>7, IndexGiven
<1>10. /\ CqReg(c) \in Reg /\ CqReg(c) \notin HwRing
       /\ \A b \in HwCq : CqReg(b) = CqReg(c) => b = c
  BY Registers
<1>11. /\ HwTypes' /\ Lands' /\ RegsPosted(CqReg(c), "disable", None, None)
       /\ OneMore(CqReg(c), "disable", None)
  <2>1. WriteOK([reg |-> CqReg(c), do |-> "disable", cfg |-> None, cq |-> None])
    BY <1>10 DEF WriteOK
  <2> QED  BY <1>4, <1>7, <1>10, <2>1, Posts
<1>12. \A j \in Ring \ {k} : /\ cqn'[j] = cqn[j] /\ index'[j] = index[j]
                             /\ RingReg(j)' = RingReg(j)
  BY <1>4, <1>7 DEF IndicesOwned, RingReg
<1>13. cqn' = cqn /\ index'[k] = None /\ RingReg(k)' \notin HwRing
  <2>1. index'[k] = None
    BY <1>3, <1>4, <1>7 DEF IndicesOwned
  <2> QED  BY <1>7, <2>1, NoneNowhere DEF RingReg
<1>14. RingStep(k, CqReg(c))
  <2>1. \A r \in Reg : r # CqReg(c) =>
            (OffEnd(r)' <=> OffEnd(r)) /\ \A j, b : CfgEnd(r, j, b)' <=> CfgEnd(r, j, b)
    BY <1>11 DEF RegsPosted
  <2>2. \A j \in Ring \ {k} : RingReg(j) # CqReg(c)
                              /\ \A b \in HwCq : cqn[j] = b => CqReg(b) # CqReg(c)
    BY <1>3, <1>6, NotShared
  <2>3. At("unlinkRing", k) /\ "unlinkRing" \in Whole
    BY <1>3 DEF Whole
  <2> QED  BY <1>3, <1>8, <1>12, <2>1, <2>2, <2>3 DEF RingStep
<1>15. \A n \in Half \union Whole : At(n, k)' <=> n = "closeCq"
  BY <1>8 DEF Goes
<1>16. StageOf(k)'
  <2>1. ~ToOpen(k)'
    <3>1. ~ToOpen(k)
      BY <1>3, <1>4, <1>5 DEF StageOf
    <3> QED  BY <1>3, <3>1, Advances
  <2> QED  BY <1>5, <1>13, <1>15, <2>1 DEF StageOf, Half, Whole
<1>17. RingWillBe(k)'
  BY <1>13 DEF RingWillBe
<1>18. CqWillBe(k)'
  <2>1. ~At("cqConfig", k)
    BY <1>3, AtOne
  <2>2. CfgEnd(CqReg(c), k, None)
    BY <1>3, <1>4, <1>6, <2>1 DEF CqWillBe
  <2>3. CfgEnd(CqReg(c), k, None)' /\ OffEnd(CqReg(c))'
    BY <1>10, <1>11, <2>2 DEF RegsPosted
  <2> QED  BY <1>6, <1>13, <1>15, <2>3 DEF CqWillBe, Half
<1>19. RxServed'
  <2>1. \A h \in HwRing, b \in HwCq : h[1] = "rx" /\ Serves(h, b) => Serves(h, b)'
    <3>1. RingReg(k)[1] = "tx"
      BY <1>3, <1>4, OwnRegister, TxRings
    <3> QED  BY <1>7, <1>12, <3>1, ServesKept
  <2>2. \A h \in HwRing : h # CqReg(c)
    BY <1>10
  <2> QED  BY <1>7, <1>11, <2>1, <2>2, RxKept DEF IInv, OneMore
<1>20. EventsKnown'
  <2>1. Leaving(k)
    BY <1>3 DEF Leaving, Closing
  <2>2. \A j : j # k => ~Leaving(j)'
    BY <1>8 DEF Leaving, Goes, Closing, Half, Whole
  <2>3. \A b \in HwCq : Known(b) => Known(b)'
    BY <1>7, <2>1, <2>2 DEF Known
  <2>4. \A b \in HwCq : Pending(b)' <=> Pending(b)
    BY <1>7 DEF Pending
  <2> QED  BY <2>3, <2>4 DEF IInv, EventsKnown
<1>21. CqsOwned' /\ NoCrash'
  BY <1>7 DEF IInv, CqsOwned, NoCrash
<1>22. linked' \subseteq Ring /\ \A j \in Ring : j \in linked' <=> index'[j] # None
  BY <1>4, <1>7, <1>12, <1>13
<1>23. ASSUME NEW h \in HwRing, \A j \in Ring : RingReg(j)' # h
       PROVE  (CqReg(c) # h /\ (\A j \in Ring : RingReg(j) # h)) \/ OffEnd(h)'
  <2>1. CASE RingReg(k) = h
    <3>1. OffEnd(h)
      BY <1>3, <1>4, <1>6, <2>1 DEF RingWillBe
    <3> QED  BY <1>10, <1>11, <3>1, Registers DEF RegsPosted
  <2>2. CASE RingReg(k) # h
    BY <1>10, <1>12, <1>23, <2>2
  <2> QED  BY <2>1, <2>2
<1>24. \A b \in HwCq : (\A j \in Ring : cqn'[j] # b) =>
                CqReg(c) # CqReg(b) /\ (\A j \in Ring : cqn[j] # b)
  BY <1>3, <1>6, <1>10, <1>13
<1> QED
  BY <1>3, <1>9, <1>11, <1>14, <1>16, <1>17, <1>18, <1>19, <1>20, <1>21, <1>22, <1>23, <1>24,
     RingStepKeeps

(* Cq.close after its write: the register has been disabled.               *)
LEMMA CloseCqKeeps == ASSUME IInv, CloseCq PROVE IInv'
<1>1. PICK k : k = Head(program).ring
  OBVIOUS
<1>2. /\ Orderly(program) /\ program # <<>> /\ program' = Tail(program) /\ At("closeCq", k)
      /\ k \in Ring /\ Label(Head(program)) = "closeCq"
  <2>1. Orderly(program) /\ Doing("closeCq") /\ program' = Tail(program)
    BY DEF IInv, CloseCq, Proceed
  <2>2. program # <<>> /\ At("closeCq", k) /\ Label(Head(program)) = "closeCq"
    BY <1>1, <2>1, Doings DEF Calls
  <2> QED  BY <2>1, <2>2, AtOne DEF Half
<1>3. /\ \A j \in Ring : StageOf(j) /\ CqWillBe(j) /\ (j \in linked <=> index[j] # None)
      /\ linked \subseteq Ring /\ CqsOwned /\ IndicesOwned /\ HwTypes /\ Lands
  BY DEF IInv, Stages, RegistersOK
<1>4. cqn[k] # None /\ index[k] = None /\ k \notin linked
  BY <1>2, <1>3 DEF StageOf, Half
<1>5. PICK c \in HwCq : c = cqn[k]
  BY <1>2, <1>3, <1>4 DEF CqsOwned
<1>6. /\ cqTable' = [cqTable EXCEPT ![c] = None] /\ freeCq' = Freed(freeCq, c)
      /\ cqn' = [cqn EXCEPT ![k] = None]
      /\ UNCHANGED <<freeIndex, index, linked, posted, hwRing, hwCq, events, handler, crashed>>
  BY <1>1, <1>5 DEF CloseCq, ThisRing, hwVars
<1>7. Leaves
  BY <1>2, Unchained
<1>8. CqsOwned'
  BY <1>2, <1>3, <1>4, <1>5, <1>6, CqGiven
<1>9. HwTypes' /\ Lands' /\ RegsSame
  <2>1. HwTypes'
    BY <1>3, <1>6 DEF HwTypes, WriteOK
  <2>2. \A b \in HwCq : hwCq'[b].on = hwCq[b].on /\ hwCq'[b].cfg = hwCq[b].cfg
    BY <1>6
  <2>3. Lands' /\ RegsSame
    BY <1>3, <1>6, <2>2, RegsUnchanged
  <2> QED  BY <2>1, <2>3
<1>10. \A j \in Ring \ {k} : cqn'[j] = cqn[j] /\ index'[j] = index[j]
  BY <1>3, <1>6 DEF CqsOwned
<1>11. cqn'[k] = None /\ index' = index /\ \A j : RingReg(j)' = RingReg(j)
  BY <1>2, <1>3, <1>6 DEF CqsOwned, RingReg
<1>12. RingStep(k, CqReg(c))
  <2>1. \A j \in Ring \ {k} : RingReg(j) # CqReg(c)
                              /\ \A b \in HwCq : cqn[j] = b => CqReg(b) # CqReg(c)
    BY <1>2, <1>5, NotShared
  <2>2. At("closeCq", k) /\ "closeCq" \in Half
    BY <1>2 DEF Half
  <2> QED  BY <1>2, <1>7, <1>9, <1>10, <2>1, <2>2 DEF RingStep, RegsSame
<1>13. StageOf(k)'
  BY <1>4, <1>7, <1>11 DEF StageOf, Leaves
<1>14. RingWillBe(k)'
  <2>1. RingReg(k)' \notin HwRing
    BY <1>2, <1>3, <1>4, <1>11, OwnRegister
  <2> QED  BY <2>1 DEF RingWillBe
<1>15. CqWillBe(k)'
  BY <1>11, NoneNowhere DEF CqWillBe
<1>16. RxServed'
  <2>1. \A h, b : Serves(h, b) => Serves(h, b)'
    BY <1>4, <1>6, <1>10, ServesKept
  <2> QED  BY <1>6, <2>1 DEF IInv, RxServed
<1>17. EventsKnown'
  <2>1. ASSUME NEW b \in HwCq, Known(b) PROVE Known(b)'
    <3>1. cqTable[b] \in linked /\ cqTable[b] \in Ring
      BY <1>3, <2>1 DEF Known
    <3>2. b # c
      BY <1>2, <1>3, <1>4, <1>5, <3>1 DEF CqsOwned
    <3>3. cqTable'[b] = cqTable[b]
      BY <1>3, <1>6, <3>2 DEF CqsOwned
    <3>4. \A j : ~Leaving(j)'
      BY <1>7 DEF Leaving, Leaves, Closing, Half, Whole
    <3> QED  BY <1>6, <2>1, <3>3, <3>4 DEF Known
  <2>2. \A b \in HwCq : Pending(b)' <=> Pending(b)
    BY <1>6 DEF Pending
  <2> QED  BY <2>1, <2>2 DEF IInv, EventsKnown
<1>18. IndicesOwned' /\ NoCrash'
  BY <1>6 DEF IInv, IndicesOwned, NoCrash
<1>19. linked' \subseteq Ring /\ \A j \in Ring : j \in linked' <=> index'[j] # None
  BY <1>3, <1>6
<1>20. \A h \in HwRing : (\A j \in Ring : RingReg(j)' # h) =>
                CqReg(c) # h /\ (\A j \in Ring : RingReg(j) # h)
  BY <1>11, Registers
<1>21. ASSUME NEW b \in HwCq, \A j \in Ring : cqn'[j] # b
       PROVE  (CqReg(c) # CqReg(b) /\ (\A j \in Ring : cqn[j] # b)) \/ OffEnd(CqReg(b))'
  <2>1. CASE b = c
    <3>1. OffEnd(CqReg(c))
      BY <1>2, <1>3, <1>5 DEF CqWillBe
    <3> QED  BY <1>9, <2>1, <3>1, Registers DEF RegsSame
  <2>2. CASE b # c
    <3>1. CqReg(c) # CqReg(b)
      BY <2>2, Registers
    <3> QED  BY <1>5, <1>10, <1>21, <2>2, <3>1
  <2> QED  BY <2>1, <2>2
<1> QED
  BY <1>2, <1>8, <1>9, <1>12, <1>13, <1>14, <1>15, <1>16, <1>17, <1>18, <1>19, <1>20, <1>21,
     RingStepKeeps

(* The coroutine's steps keep the invariant.                               *)
LEMMA TestKeeps == ASSUME IInv, Test PROVE IInv'
<1>1. CASE PostWrite
  <2>1. PICK k : k = Head(program).ring
    OBVIOUS
  <2>2. PICK l : l = Head(program).reg
    OBVIOUS
  <2>3. /\ program # <<>> /\ program' = Tail(program) /\ Label(Head(program)) = l
    <3>1. Orderly(program) /\ Doing("write") /\ program' = Tail(program)
      BY <1>1 DEF IInv, PostWrite, Proceed
    <3> QED  BY <2>2, <3>1, Doings
  <2>4. CASE l \in {"cqConfig", "cqEnable", "cqArm", "config", "enable", "disable"}
    BY <1>1, <2>1, <2>2, <2>4, RingWrites
  <2>5. CASE l \notin {"cqConfig", "cqEnable", "cqArm", "config", "enable", "disable"}
    <3>1. UNCHANGED <<objectVars, hwRing, hwCq, events, handler, crashed>>
      BY <1>1 DEF PostWrite, hwVars
    <3>2. \/ l = "eqConfig" /\ Post(EqReg, "config", 0, None)
          \/ l = "eqEnable" /\ Post(EqReg, "enable", None, None)
          \/ l = "eqArm" /\ Post(EqReg, "arm", None, None)
      BY <1>1, <2>2, <2>5 DEF PostWrite
    <3>3. Label(Head(program)) \in Free
      BY <2>3, <3>2 DEF Free
    <3>4. \E do \in {"enable", "disable", "config", "arm", "read"}, cfg \in {None, 0} :
            Post(EqReg, do, cfg, None)
      BY <3>2
    <3> QED  BY <2>3, <3>1, <3>3, <3>4, FreeStep
  <2> QED  BY <2>4, <2>5
<1>2. CASE DisableQueue
  BY <1>2, DisableKeeps
<1>3. CASE OpenCq
  BY <1>3, OpenCqKeeps
<1>4. CASE OpenTxqOrRxq
  BY <1>4, OpenRingKeeps
<1>5. CASE UnlinkRing
  BY <1>5, UnlinkKeeps
<1>6. CASE CloseCq
  BY <1>6, CloseCqKeeps
<1>7. CASE OpenEq \/ Drain \/ PortUp \/ PortDown \/ FreeBuf
  <2>1. PICK op \in {"openEq", "drain", "up", "down", "freeBuf"} :
            Doing(op) /\ program' = Tail(program)
    BY <1>7 DEF OpenEq, Drain, PortUp, PortDown, FreeBuf, Proceed
  <2>2. program # <<>> /\ Label(Head(program)) \in Free
    <3>1. Orderly(program) /\ op \in Calls
      BY DEF IInv, Calls
    <3>2. program # <<>> /\ Label(Head(program)) = op
      BY <2>1, <3>1, Doings
    <3> QED  BY <3>2 DEF Free
  <2>3. UNCHANGED <<objectVars, hwRing, hwCq, events, handler, crashed>>
    BY <1>7 DEF OpenEq, Drain, PortUp, PortDown, FreeBuf, hwVars
  <2>4. \/ posted' = posted
        \/ Post(EqReg, "disable", None, None)
        \/ Post(EqReg, "read", None, None)
    BY <1>7 DEF OpenEq, Drain, PortUp, PortDown, FreeBuf
  <2>5. \E do \in {"enable", "disable", "config", "arm", "read"}, cfg \in {None, 0} :
            posted' = posted \/ Post(EqReg, do, cfg, None)
    BY <2>4
  <2> QED  BY <2>1, <2>2, <2>3, <2>5, FreeStep
<1> QED  BY <1>1, <1>2, <1>3, <1>4, <1>5, <1>6, <1>7 DEF Test

-----------------------------------------------------------------------------
(* Calls of the test                                                       *)

(* The programs of the calls.                                              *)
LEMMA ClosesRing ==
    ASSUME NEW k \in TxRing, NEW p, p = CloseRing(k)
    PROVE  /\ Orderly(p) /\ p # <<>>
           /\ Label(Head(p)) = "disable" /\ Head(p).ring = k
           /\ \A j \in 1 .. Len(p) : Label(p[j]) # "openCq"
<1>1. k \in Ring
  BY TxRings
<1>2. Len(p) = 3 /\ p # <<>>
  BY DEF CloseRing
<1>3. p[1] = WriteStep("disable", k) /\ p[2] = Step("unlinkRing", k) /\ p[3] = Step("closeCq", k)
  BY DEF CloseRing
<1>4. /\ p[1] \in ProgramStep /\ Label(p[1]) = "disable" /\ p[1].ring = k
      /\ p[2] \in ProgramStep /\ Label(p[2]) = "unlinkRing" /\ p[2].ring = k
      /\ p[3] \in ProgramStep /\ Label(p[3]) = "closeCq" /\ p[3].ring = k
  BY <1>1, <1>3 DEF ProgramStep, Label, WriteStep, Step, Writes, Calls
<1>5. \A j \in 1 .. 3 : j = 1 \/ j = 2 \/ j = 3
  OBVIOUS
<1>6. p \in Seq(ProgramStep)
  BY <1>3, <1>4 DEF CloseRing
<1>7. \A j \in 1 .. 3 : StepOK(p[j]) /\ Label(p[j]) # "openCq"
  BY <1>1, <1>4, <1>5 DEF StepOK
<1>8. \A j \in 1 .. 3 - 1 : Follows(p[j], p[j + 1])
  <2>1. \A j \in 1 .. 3 - 1 : (j = 1 /\ j + 1 = 2) \/ (j = 2 /\ j + 1 = 3)
    OBVIOUS
  <2>2. Follows(p[1], p[2]) /\ Follows(p[2], p[3])
    BY <1>4 DEF Follows, Chain
  <2> QED  BY <2>1, <2>2
<1>9. CanEnd(p[3])
  BY <1>4 DEF CanEnd
<1>10. Head(p) = p[1]
  BY <1>2, <1>6
<1> QED  BY <1>2, <1>4, <1>6, <1>7, <1>8, <1>9, <1>10 DEF Orderly, Opens

(* The seven steps that open a ring.                                       *)
LEMMA OpenSteps ==
    ASSUME NEW k \in Ring, NEW p, p = OpenRing(k)
    PROVE  /\ Len(p) = 7 /\ p # <<>> /\ p \in Seq(ProgramStep) /\ Head(p) = p[1]
           /\ \A j \in 1 .. 7 : p[j] \in ProgramStep /\ p[j].ring = k /\ StepOK(p[j])
           /\ \A j \in 1 .. 7 : Label(p[j]) = "openCq" <=> j = 1
           /\ \A j \in 1 .. 6 : Follows(p[j], p[j + 1])
           /\ Label(p[7]) = "enable"
<1>1. Len(p) = 7 /\ p # <<>>
  BY DEF OpenRing
<1>2. /\ p[1] = Step("openCq", k) /\ p[2] = WriteStep("cqConfig", k)
      /\ p[3] = WriteStep("cqEnable", k) /\ p[4] = WriteStep("cqArm", k)
      /\ p[5] = Step("openRing", k) /\ p[6] = WriteStep("config", k)
      /\ p[7] = WriteStep("enable", k)
  BY DEF OpenRing
<1>3. /\ p[1] \in ProgramStep /\ Label(p[1]) = "openCq" /\ p[1].ring = k
      /\ p[2] \in ProgramStep /\ Label(p[2]) = "cqConfig" /\ p[2].ring = k
      /\ p[3] \in ProgramStep /\ Label(p[3]) = "cqEnable" /\ p[3].ring = k
      /\ p[4] \in ProgramStep /\ Label(p[4]) = "cqArm" /\ p[4].ring = k
  BY <1>2 DEF ProgramStep, Label, WriteStep, Step, Writes, Calls
<1>4. /\ p[5] \in ProgramStep /\ Label(p[5]) = "openRing" /\ p[5].ring = k
      /\ p[6] \in ProgramStep /\ Label(p[6]) = "config" /\ p[6].ring = k
      /\ p[7] \in ProgramStep /\ Label(p[7]) = "enable" /\ p[7].ring = k
  BY <1>2 DEF ProgramStep, Label, WriteStep, Step, Writes, Calls
<1>5. \A j \in 1 .. 7 : j = 1 \/ j = 2 \/ j = 3 \/ j = 4 \/ j = 5 \/ j = 6 \/ j = 7
  OBVIOUS
<1>6. p \in Seq(ProgramStep)
  BY <1>2, <1>3, <1>4 DEF OpenRing
<1>7. \A j \in 1 .. 7 : p[j] \in ProgramStep /\ p[j].ring = k
  BY <1>3, <1>4, <1>5
<1>8. \A j \in 1 .. 7 : Label(p[j]) = "openCq" <=> j = 1
  BY <1>3, <1>4, <1>5
<1>9. \A j \in 1 .. 7 : Label(p[j]) \notin Closing
  BY <1>3, <1>4, <1>5 DEF Closing
<1>10. \A j \in 1 .. 7 : StepOK(p[j])
  BY <1>7, <1>9 DEF StepOK
<1>11. \A j \in 1 .. 6 : Follows(p[j], p[j + 1])
  <2>1. \A j \in 1 .. 6 : \/ j = 1 /\ j + 1 = 2
                          \/ j = 2 /\ j + 1 = 3
                          \/ j = 3 /\ j + 1 = 4
                          \/ j = 4 /\ j + 1 = 5
                          \/ j = 5 /\ j + 1 = 6
                          \/ j = 6 /\ j + 1 = 7
    OBVIOUS
  <2>2. Follows(p[1], p[2]) /\ Follows(p[2], p[3]) /\ Follows(p[3], p[4])
    BY <1>3 DEF Follows, Chain
  <2>3. Follows(p[4], p[5]) /\ Follows(p[5], p[6]) /\ Follows(p[6], p[7])
    BY <1>3, <1>4 DEF Follows, Chain
  <2> QED  BY <2>1, <2>2, <2>3
<1>12. Head(p) = p[1]
  BY <1>1, <1>6
<1> QED  BY <1>1, <1>4, <1>6, <1>7, <1>8, <1>10, <1>11, <1>12

(* They are a program that may run, all of ring k.                         *)
LEMMA OpensRing ==
    ASSUME NEW k \in Ring, NEW p, p = OpenRing(k)
    PROVE  /\ Orderly(p) /\ p # <<>> /\ Label(Head(p)) = "openCq"
           /\ \A j \in 1 .. Len(p) : p[j].ring = k
<1>1. \A j \in 1 .. 7 - 1 : Follows(p[j], p[j + 1])
  <2>1. \A j \in 1 .. 7 - 1 : j \in 1 .. 6
    OBVIOUS
  <2> QED  BY <2>1, OpenSteps
<1>2. CanEnd(p[7])
  BY OpenSteps DEF CanEnd
<1>3. Len(p) = 7 /\ p # <<>> /\ p \in Seq(ProgramStep) /\ Head(p) = p[1]
  BY OpenSteps
<1>4. \A j \in 1 .. 7 : /\ StepOK(p[j]) /\ p[j].ring = k
                        /\ Label(p[j]) = "openCq" <=> j = 1
  BY OpenSteps
<1>5. Orderly(p)
  <2>1. \A i, j \in 1 .. 7 : \A b \in Ring : Opens(p[i], b) /\ Opens(p[j], b) => i = j
    BY <1>4 DEF Opens
  <2> QED  BY <1>1, <1>2, <1>3, <1>4, <2>1 DEF Orderly
<1> QED  BY <1>3, <1>4, <1>5

(* A list of steps of no ring.                                             *)
FreeSteps == {s \in ProgramStep : Label(s) \in Free}
OffSteps == {s \in ProgramStep : Label(s) = "off"}

(* Lists of steps of no ring may run as they stand.                        *)
LEMMA PlainLists ==
    ASSUME NEW p, p \in Seq(FreeSteps) \/ p \in Seq(OffSteps)
    PROVE  Orderly(p) /\ \A j \in 1 .. Len(p) : Label(p[j]) # "openCq"
<1>1. p \in Seq(ProgramStep)
  BY DEF FreeSteps, OffSteps
<1>2. PICK n \in Nat : n = Len(p)
  BY <1>1
<1>3. \/ \A j \in 1 .. n : Label(p[j]) \in Free
      \/ \A j \in 1 .. n : Label(p[j]) = "off"
  BY <1>2 DEF FreeSteps, OffSteps
<1>4. \A j \in 1 .. n : StepOK(p[j]) /\ CanEnd(p[j]) /\ Label(p[j]) # "openCq"
  BY <1>3 DEF StepOK, CanEnd, Free, Half, Whole, Closing
<1>5. \A j \in 1 .. n - 1 : Follows(p[j], p[j + 1])
  <2>1. \A j \in 1 .. n - 1 : j \in 1 .. n /\ j + 1 \in 1 .. n
    BY <1>2
  <2> QED  BY <1>3, <2>1 DEF Follows
<1>6. p # <<>> => n \in 1 .. n
  BY <1>1, <1>2
<1> QED  BY <1>1, <1>2, <1>4, <1>5, <1>6 DEF Orderly, Opens

(* A call gives the coroutine its program: to close a ring that is open,   *)
(* or to open one that is not.                                             *)
LEMMA CallKeeps ==
    ASSUME IInv, program = <<>>, Orderly(program)', ~AtOff',
           UNCHANGED <<objectVars, posted, hwRing, hwCq, events, handler, crashed>>,
           \A n \in Half \union Whole : \A j : At(n, j)' => n = "disable" /\ index[j] # None,
           \A j \in Ring : ToOpen(j)' => cqn[j] = None,
           \A j \in Ring, c \in HwCq : Leaving(j)' /\ cqTable[c] = j => ~Pending(c)
    PROVE  IInv'
<1>1. \A n, j : ~At(n, j)
  BY DEF At
<1>2. /\ index' = index /\ cqn' = cqn /\ linked' = linked /\ cqTable' = cqTable
      /\ freeIndex' = freeIndex /\ freeCq' = freeCq
      /\ \A j : RingReg(j)' = RingReg(j)
  BY DEF objectVars, RingReg
<1>3. \A r : ~ToDisable(r)
  <2>1. Len(program) = 0 /\ 1 .. 0 = {}
    OBVIOUS
  <2> QED  BY <2>1 DEF ToDisable
<1>4. HwTypes /\ Lands /\ Stages /\ (\A j \in Ring : RingWillBe(j) /\ CqWillBe(j))
  BY DEF IInv, RegistersOK
<1>5. HwTypes' /\ Lands' /\ RegsSame
  <2>1. HwTypes'
    BY <1>4 DEF HwTypes, WriteOK
  <2>2. \A b \in HwCq : hwCq'[b].on = hwCq[b].on /\ hwCq'[b].cfg = hwCq[b].cfg
    OBVIOUS
  <2>3. Lands' /\ RegsSame
    BY <1>4, <2>2, RegsUnchanged
  <2> QED  BY <2>1, <2>3
<1>6. RxServed'
  <2>1. \A h, b : Serves(h, b)' <=> Serves(h, b)
    BY <1>2, SameServes
  <2> QED  BY <2>1 DEF IInv, RxServed
<1>7. EventsKnown'
  <2> SUFFICES ASSUME NEW b \in HwCq, Pending(b)' PROVE Known(b)'
    BY DEF EventsKnown
  <2>1. Pending(b)
    BY DEF Pending
  <2>2. Known(b) /\ cqTable[b] \in Ring
    <3>1. Known(b)
      BY <2>1 DEF IInv, EventsKnown
    <3> QED  BY <1>4, <3>1 DEF Stages, Known
  <2>3. PICK j \in Ring : j = cqTable[b]
    BY <2>2
  <2>4. ~Leaving(j)'
    BY <2>1, <2>3
  <2>5. cqTable'[b] = j /\ j # None /\ j \in linked'
    BY <1>2, <2>2, <2>3 DEF Known
  <2> QED  BY <2>4, <2>5 DEF Known
<1>8. CqsOwned' /\ IndicesOwned' /\ NoCrash'
  BY <1>2 DEF IInv, CqsOwned, IndicesOwned, NoCrash
<1>9. ASSUME NEW k \in Ring PROVE StageOf(k)'
  <2>1. StageOf(k)
    BY <1>4 DEF Stages
  <2>2. ~(cqn[k] # None /\ index[k] = None)
    BY <1>1, <2>1 DEF StageOf
  <2>3. \A n \in Half : ~At(n, k)'
    BY DEF Half
  <2>4. \A n \in Whole : At(n, k)' => index[k] # None
    OBVIOUS
  <2> QED  BY <1>2, <2>1, <2>2, <2>3, <2>4 DEF StageOf
<1>10. Stages'
  BY <1>2, <1>4, <1>9 DEF Stages
<1>11. ASSUME NEW k \in Ring PROVE RingWillBe(k)' /\ CqWillBe(k)'
  <2>1. ~At("config", k)' /\ ~At("enable", k)' /\ ~At("unlinkRing", k)'
    BY DEF Whole
  <2>2. ~At("cqConfig", k)' /\ ~At("cqEnable", k)' /\ ~At("closeCq", k)'
    BY DEF Half
  <2>3. RingWillBe(k)'
    <3>1. \A r \in HwRing, c \in HwCq : RingReg(k) = r /\ cqn[k] = c => CfgEnd(r, k, c)
      BY <1>1, <1>4 DEF RingWillBe
    <3>2. \A r \in HwRing : \A c \in HwCq : CfgEnd(r, k, c)' <=> CfgEnd(r, k, c)
      BY <1>5, Registers DEF RegsSame
    <3> QED  BY <1>2, <2>1, <3>1, <3>2 DEF RingWillBe
  <2>4. CqWillBe(k)'
    <3>1. \A c \in HwCq : cqn[k] = c => CfgEnd(CqReg(c), k, None) /\ ~OffEnd(CqReg(c))
      BY <1>1, <1>4 DEF CqWillBe
    <3>2. \A c \in HwCq : /\ CfgEnd(CqReg(c), k, None)' <=> CfgEnd(CqReg(c), k, None)
                          /\ OffEnd(CqReg(c))' <=> OffEnd(CqReg(c))
      BY <1>5, Registers DEF RegsSame
    <3> QED  BY <1>2, <2>2, <3>1, <3>2 DEF CqWillBe
  <2> QED  BY <2>3, <2>4
<1>12. SpareRings' /\ SpareCqs'
  <2>1. \A r \in Reg : OffEnd(r)' <=> OffEnd(r)
    BY <1>5 DEF RegsSame
  <2>2. SpareRings'
    BY <1>2, <1>3, <2>1, Registers DEF IInv, RegistersOK, SpareRings
  <2>3. SpareCqs'
    BY <1>2, <1>3, <2>1, Registers DEF IInv, RegistersOK, SpareCqs
  <2> QED  BY <2>2, <2>3
<1> QED  BY <1>5, <1>6, <1>7, <1>8, <1>10, <1>11, <1>12 DEF IInv, RegistersOK

(* The test begins to close a ring.                                        *)
LEMMA CloseRingKeeps == ASSUME IInv, NEW k \in TxRing, CallCloseRing(k) PROVE IInv'
<1>1. PICK p : p = CloseRing(k)
  OBVIOUS
<1>2. /\ Orderly(p) /\ p # <<>>
      /\ Label(Head(p)) = "disable" /\ Head(p).ring = k
      /\ \A j \in 1 .. Len(p) : Label(p[j]) # "openCq"
  BY <1>1, ClosesRing
<1>3. /\ program = <<>> /\ program' = p /\ k \in linked /\ k \in Ring /\ Quiet(k)
      /\ UNCHANGED <<objectVars, posted, hwRing, hwCq, events, handler, crashed>>
  BY <1>1, TxRings DEF CallCloseRing, hwVars
<1>4. \A n, j : At(n, j)' <=> n = "disable" /\ j = k
  BY <1>2, <1>3 DEF At
<1>5. ~AtOff' /\ (\A j : ~ToOpen(j)') /\ Orderly(program)'
  BY <1>2, <1>3 DEF AtOff, ToOpen, Opens
<1>6. index[k] # None
  BY <1>3 DEF IInv, Stages
<1>7. ASSUME NEW j \in Ring, NEW c \in HwCq, Leaving(j)', cqTable[c] = j PROVE ~Pending(c)
  <2>1. j = k
    BY <1>4, <1>7 DEF Leaving
  <2>2. cqn[k] = c
    BY <1>7, <2>1 DEF IInv, CqsOwned
  <2> QED  BY <1>3, <2>2 DEF Quiet, Pending
<1> QED  BY <1>3, <1>4, <1>5, <1>6, <1>7, CallKeeps

(* The test begins to open a ring that it has closed.                      *)
LEMMA OpenRingCallKeeps == ASSUME IInv, NEW k \in TxRing, CallOpenRing(k) PROVE IInv'
<1>1. PICK p : p = OpenRing(k)
  OBVIOUS
<1>2. k \in Ring
  BY TxRings
<1>3. /\ Orderly(p) /\ p # <<>> /\ Label(Head(p)) = "openCq"
      /\ \A j \in 1 .. Len(p) : p[j].ring = k
  BY <1>1, <1>2, OpensRing
<1>4. /\ program = <<>> /\ program' = p /\ index[k] = None
      /\ UNCHANGED <<objectVars, posted, hwRing, hwCq, events, handler, crashed>>
  BY <1>1 DEF CallOpenRing, hwVars
<1>5. \A n, j : At(n, j)' => n = "openCq"
  BY <1>3, <1>4 DEF At
<1>6. ~AtOff' /\ Orderly(program)' /\ \A j : ToOpen(j)' => j = k
  BY <1>3, <1>4 DEF AtOff, ToOpen, Opens
<1>7. cqn[k] = None
  <2>1. \A n : ~At(n, k)
    BY <1>4 DEF At
  <2> QED  BY <1>2, <1>4, <2>1 DEF IInv, Stages, StageOf
<1>8. \A n \in Half \union Whole : \A j : ~At(n, j)'
  BY <1>5 DEF Half, Whole
<1>9. \A j \in Ring : ~Leaving(j)'
  BY <1>8 DEF Leaving, Closing, Half, Whole
<1> QED  BY <1>4, <1>6, <1>7, <1>8, <1>9, CallKeeps

(* The test begins to close the interface.                                 *)
LEMMA CloseKeeps == ASSUME IInv, CallClose PROVE IInv'
<1>1. PICK p : p = CloseInterface
  OBVIOUS
<1>2. NRx + 1 \in Ring
  BY TxRings
<1>3. /\ Step("down", None) \in FreeSteps /\ Step("drain", None) \in FreeSteps
      /\ Step("freeBuf", NRx + 1) \in FreeSteps
  BY <1>2 DEF FreeSteps, Step, ProgramStep, Label, Calls, Free
<1>4. p \in Seq(FreeSteps) /\ p # <<>> /\ Head(p) = Step("down", None)
  BY <1>1, <1>3 DEF CloseInterface
<1>5. Orderly(p) /\ \A j \in 1 .. Len(p) : Label(p[j]) # "openCq"
  BY <1>4, PlainLists
<1>6. Label(Head(p)) = "down"
  BY <1>4 DEF Label, Step
<1>7. /\ program = <<>> /\ program' = p
      /\ UNCHANGED <<objectVars, posted, hwRing, hwCq, events, handler, crashed>>
  BY <1>1 DEF CallClose, hwVars
<1>8. \A n \in Half \union Whole : \A j : ~At(n, j)'
  BY <1>6, <1>7 DEF At, Half, Whole
<1>9. ~AtOff' /\ Orderly(program)' /\ \A j : ~ToOpen(j)'
  BY <1>5, <1>6, <1>7 DEF AtOff, ToOpen, Opens
<1>10. \A j \in Ring : ~Leaving(j)'
  BY <1>8 DEF Leaving, Closing, Half, Whole
<1> QED  BY <1>7, <1>8, <1>9, <1>10, CallKeeps

(* Every step keeps the invariant.                                         *)
LEMMA StepKeeps == ASSUME IInv, [Next]_vars PROVE IInv'
<1>1. CASE Test
  BY <1>1, TestKeeps
<1>2. CASE \E k \in TxRing : CallCloseRing(k) \/ CallOpenRing(k)
  BY <1>2, CloseRingKeeps, OpenRingCallKeeps
<1>3. CASE CallClose
  BY <1>3, CloseKeeps
<1>4. CASE Handler
  BY <1>4, HandlerKeeps
<1>5. CASE DeliverWrite
  BY <1>5, DeliverKeeps
<1>6. CASE \E h \in HwRing : Complete(h)
  BY <1>6, CompleteKeeps
<1>7. CASE UNCHANGED vars
  <2>1. UNCHANGED <<program, objectVars, posted, hwRing, crashed, hwCq, events, handler>>
    BY <1>7 DEF vars, testVars, hwVars
  <2>2. HwTypes'
    BY <2>1 DEF IInv, HwTypes, WriteOK
  <2>3. \A c \in HwCq : Pending(c)' => Pending(c)
    BY <2>1 DEF Pending
  <2> QED  BY <2>1, <2>2, <2>3, Silent
<1> QED  BY <1>1, <1>2, <1>3, <1>4, <1>5, <1>6, <1>7 DEF Next

-----------------------------------------------------------------------------
(* Initial states                                                          *)

(* One list after another.                                                 *)
After(p, q, s) ==
    /\ Len(s) = Len(p) + Len(q)
    /\ \A j \in 1 .. Len(p) : j \in 1 .. Len(s) /\ s[j] = p[j]
    /\ \A j \in 1 .. Len(q) : Len(p) + j \in 1 .. Len(s) /\ s[Len(p) + j] = q[j]

(* Two lists one after the other.                                          *)
LEMMA Joined ==
    ASSUME NEW S, NEW p \in Seq(S), NEW q \in Seq(S), NEW s, s = p \o q
    PROVE  s \in Seq(S) /\ After(p, q, s)
<1>1. PICK m \in Nat : m = Len(p)
  OBVIOUS
<1>2. PICK n \in Nat : n = Len(q)
  OBVIOUS
<1>3. s \in Seq(S) /\ Len(s) = m + n
  BY <1>1, <1>2
<1>4. \A j \in 1 .. m + n : s[j] = IF j <= m THEN p[j] ELSE q[j - m]
  BY <1>1, <1>2
<1>5. \A j \in 1 .. m : j \in 1 .. m + n /\ j <= m
  OBVIOUS
<1>6. \A j \in 1 .. n : m + j \in 1 .. m + n /\ ~(m + j <= m) /\ m + j - m = j
  OBVIOUS
<1> QED  BY <1>1, <1>2, <1>3, <1>4, <1>5, <1>6 DEF After

(* One program after another.                                              *)
LEMMA OneAfterOther ==
    ASSUME NEW p, Orderly(p), NEW q, Orderly(q), p # <<>>, q # <<>>, Follows(p[Len(p)], q[1]),
           \/ \A j \in 1 .. Len(p) : Label(p[j]) # "openCq"
           \/ \A j \in 1 .. Len(q) : Label(q[j]) # "openCq",
           NEW s, s = p \o q
    PROVE  Orderly(s) /\ s # <<>> /\ After(p, q, s)
<1>1. p \in Seq(ProgramStep) /\ q \in Seq(ProgramStep)
  BY DEF Orderly
<1>2. PICK m \in Nat : m = Len(p)
  BY <1>1
<1>3. PICK n \in Nat : n = Len(q)
  BY <1>1
<1>4. m >= 1 /\ n >= 1
  BY <1>1, <1>2, <1>3
<1>5. /\ s \in Seq(ProgramStep) /\ Len(s) = m + n
      /\ \A j \in 1 .. m : s[j] = p[j]
      /\ \A j \in 1 .. n : s[m + j] = q[j]
  <2>1. s \in Seq(ProgramStep) /\ After(p, q, s)
    BY <1>1, Joined
  <2> QED  BY <1>2, <1>3, <2>1 DEF After
<1>6. \A j \in 1 .. m + n : j \in 1 .. m \/ \E i \in 1 .. n : j = m + i
  <2> SUFFICES ASSUME NEW j \in 1 .. m + n, j \notin 1 .. m PROVE \E i \in 1 .. n : j = m + i
    OBVIOUS
  <2>1. j - m \in 1 .. n /\ j = m + (j - m)
    OBVIOUS
  <2> QED  BY <2>1
<1>7. \A j \in 1 .. m + n : StepOK(s[j])
  BY <1>2, <1>3, <1>5, <1>6 DEF Orderly
<1>8. ASSUME NEW j \in 1 .. m + n - 1 PROVE Follows(s[j], s[j + 1])
  <2>1. CASE j < m
    <3>1. j \in 1 .. m - 1 /\ j \in 1 .. m /\ j + 1 \in 1 .. m
      BY <2>1
    <3> QED  BY <1>2, <1>5, <3>1 DEF Orderly
  <2>2. CASE j = m
    <3>1. m \in 1 .. m /\ 1 \in 1 .. n /\ j + 1 = m + 1
      BY <1>4, <2>2
    <3>2. s[j] = p[m] /\ s[j + 1] = q[1]
      BY <1>5, <2>2, <3>1
    <3> QED  BY <1>2, <3>2
  <2>3. CASE j > m
    <3>1. PICK i \in 1 .. n : i = j - m
      BY <2>3
    <3>2. /\ i \in 1 .. n - 1 /\ i + 1 \in 1 .. n
          /\ j = m + i /\ j + 1 = m + (i + 1)
      BY <3>1
    <3>3. Follows(q[i], q[i + 1])
      BY <1>3, <3>2 DEF Orderly
    <3>4. s[m + i] = q[i] /\ s[m + (i + 1)] = q[i + 1]
      BY <1>5, <3>2
    <3>5. s[j] = q[i] /\ s[j + 1] = q[i + 1]
      BY <3>2, <3>4
    <3> QED  BY <3>3, <3>5
  <2>4. j < m \/ j = m \/ j > m
    OBVIOUS
  <2> QED  BY <2>1, <2>2, <2>3, <2>4
<1>9. CanEnd(s[m + n])
  <2>1. n \in 1 .. n
    BY <1>4
  <2> QED  BY <1>3, <1>5, <2>1 DEF Orderly
<1>10. ASSUME NEW a \in 1 .. m + n, NEW b \in 1 .. m + n, NEW k \in Ring, Opens(s[a], k), Opens(s[b], k)
       PROVE  a = b
  <2>1. CASE \A j \in 1 .. m : Label(p[j]) # "openCq"
    <3>1. \A j \in 1 .. m : ~Opens(s[j], k)
      BY <1>5, <2>1 DEF Opens
    <3>2. PICK i \in 1 .. n : a = m + i
      BY <1>6, <1>10, <3>1
    <3>3. PICK j \in 1 .. n : b = m + j
      BY <1>6, <1>10, <3>1
    <3>4. Opens(q[i], k) /\ Opens(q[j], k)
      BY <1>5, <1>10, <3>2, <3>3
    <3>5. i = j
      BY <1>3, <3>4 DEF Orderly
    <3> QED  BY <3>2, <3>3, <3>5
  <2>2. CASE \A j \in 1 .. n : Label(q[j]) # "openCq"
    <3>1. \A j \in 1 .. n : ~Opens(s[m + j], k)
      BY <1>5, <2>2 DEF Opens
    <3>2. a \in 1 .. m /\ b \in 1 .. m
      BY <1>6, <1>10, <3>1
    <3>3. Opens(p[a], k) /\ Opens(p[b], k)
      BY <1>5, <1>10, <3>2
    <3> QED  BY <1>2, <3>2, <3>3 DEF Orderly
  <2> QED  BY <1>2, <1>3, <2>1, <2>2
<1>11. s # <<>>
  BY <1>4, <1>5
<1>12. Orderly(s)
  <2>1. \A j \in 1 .. Len(s) : StepOK(s[j])
    BY <1>5, <1>7
  <2>2. \A j \in 1 .. Len(s) - 1 : Follows(s[j], s[j + 1])
    BY <1>5, <1>8
  <2>3. CanEnd(s[Len(s)])
    BY <1>5, <1>9
  <2>4. \A a, b \in 1 .. Len(s) : \A k \in Ring : Opens(s[a], k) /\ Opens(s[b], k) => a = b
    BY <1>5, <1>10
  <2> QED  BY <1>5, <2>1, <2>2, <2>3, <2>4 DEF Orderly
<1>13. After(p, q, s)
  BY <1>1, Joined
<1> QED  BY <1>11, <1>12, <1>13

(* Interface.open: seven steps for each ring, ring after ring.             *)
Openings == [i \in 1 .. 7 * (NRx + NTx) |-> OpenRing((i - 1) \div 7 + 1)[((i - 1) % 7) + 1]]

(* A position in the list of openings is a step of one ring.               *)
LEMMA Sevens ==
    ASSUME NEW n \in Nat, NEW i \in 1 .. 7 * n
    PROVE  \E k \in 1 .. n, m \in 1 .. 7 :
                k = (i - 1) \div 7 + 1 /\ m = ((i - 1) % 7) + 1 /\ i = 7 * (k - 1) + m
<1>1. PICK a \in Nat : a = i - 1
  OBVIOUS
<1>2. a \div 7 \in Nat /\ (a % 7) \in 0 .. 6 /\ a = 7 * (a \div 7) + (a % 7)
  OBVIOUS
<1>3. PICK d \in Nat : d = a \div 7
  BY <1>2
<1>4. PICK e \in 0 .. 6 : e = (a % 7)
  BY <1>2
<1>5. d + 1 \in 1 .. n
  <2>1. 7 * d <= a /\ a < 7 * n
    BY <1>1, <1>2, <1>3, <1>4
  <2> QED  BY <2>1
<1>6. e + 1 \in 1 .. 7 /\ i = 7 * ((d + 1) - 1) + (e + 1)
  BY <1>1, <1>2, <1>3, <1>4
<1> QED  BY <1>1, <1>3, <1>4, <1>5, <1>6

(* All the rings are opened one after another, none twice.                 *)
LEMMA OpeningsOrderly ==
    /\ Orderly(Openings) /\ Openings # <<>> /\ Label(Openings[1]) = "openCq"
    /\ Label(Openings[Len(Openings)]) = "enable"
<1>1. PICK n \in Nat : n = NRx + NTx /\ n >= 1
  BY Numbers
<1>2. PICK p : p = Openings
  OBVIOUS
<1>3. Ring = 1 .. n
  BY <1>1 DEF Ring
<1>4. \A i \in 1 .. 7 * n : p[i] = OpenRing((i - 1) \div 7 + 1)[((i - 1) % 7) + 1]
  BY <1>1, <1>2 DEF Openings
<1>5. ASSUME NEW i \in 1 .. 7 * n
      PROVE  \E k \in Ring, m \in 1 .. 7 : i = 7 * (k - 1) + m /\ p[i] = OpenRing(k)[m]
  <2>1. PICK k \in 1 .. n, m \in 1 .. 7 :
            k = (i - 1) \div 7 + 1 /\ m = ((i - 1) % 7) + 1 /\ i = 7 * (k - 1) + m
    BY Sevens
  <2> QED  BY <1>3, <1>4, <2>1
<1>6. ASSUME NEW k \in Ring, NEW m \in 1 .. 7
      PROVE  /\ OpenRing(k)[m] \in ProgramStep /\ OpenRing(k)[m].ring = k /\ StepOK(OpenRing(k)[m])
             /\ Label(OpenRing(k)[m]) = "openCq" <=> m = 1
  BY OpenSteps
<1>7. ASSUME NEW k \in Ring
      PROVE  /\ \A m \in 1 .. 6 : Follows(OpenRing(k)[m], OpenRing(k)[m + 1])
             /\ Label(OpenRing(k)[7]) = "enable"
  BY OpenSteps
<1>8. \A i \in 1 .. 7 * n : p[i] \in ProgramStep /\ StepOK(p[i])
  BY <1>5, <1>6
<1>9. p \in Seq(ProgramStep) /\ Len(p) = 7 * n /\ p # <<>>
  <2>1. 7 * n \in Nat /\ 7 * n >= 1
    BY <1>1
  <2>2. p = [i \in 1 .. 7 * n |-> p[i]]
    BY <1>1, <1>2 DEF Openings
  <2>3. p \in Seq(ProgramStep) /\ Len(p) = 7 * n
    BY <1>8, <2>1, <2>2
  <2> QED  BY <2>1, <2>3
<1>10. ASSUME NEW k \in Ring, NEW m \in 1 .. 7, NEW i \in 1 .. 7 * n, i = 7 * (k - 1) + m
       PROVE  p[i] = OpenRing(k)[m]
  <2>1. PICK b \in Ring, c \in 1 .. 7 : i = 7 * (b - 1) + c /\ p[i] = OpenRing(b)[c]
    BY <1>5
  <2>2. k \in Nat /\ b \in Nat
    BY <1>3
  <2>3. k = b /\ m = c
    BY <1>10, <2>1, <2>2
  <2> QED  BY <2>1, <2>3
<1>11. ASSUME NEW i \in 1 .. 7 * n - 1 PROVE Follows(p[i], p[i + 1])
  <2>1. i \in 1 .. 7 * n /\ i + 1 \in 1 .. 7 * n
    BY <1>1
  <2>2. PICK k \in Ring, m \in 1 .. 7 : i = 7 * (k - 1) + m /\ p[i] = OpenRing(k)[m]
    BY <1>5, <2>1
  <2>3. k \in Nat /\ k >= 1 /\ k <= n
    BY <1>3
  <2>4. CASE m < 7
    <3>1. m \in 1 .. 6 /\ m + 1 \in 1 .. 7 /\ i + 1 = 7 * (k - 1) + (m + 1)
      BY <2>2, <2>3, <2>4
    <3>2. p[i + 1] = OpenRing(k)[m + 1]
      BY <1>10, <2>1, <3>1
    <3> QED  BY <1>7, <2>2, <3>1, <3>2
  <2>5. CASE m = 7
    <3>1. k + 1 \in Ring /\ 1 \in 1 .. 7 /\ i + 1 = 7 * ((k + 1) - 1) + 1
      <4>1. k < n
        BY <2>2, <2>3, <2>5
      <4> QED  BY <1>3, <2>2, <2>3, <2>5, <4>1
    <3>2. p[i + 1] = OpenRing(k + 1)[1]
      BY <1>10, <2>1, <3>1
    <3>3. Label(p[i + 1]) = "openCq"
      BY <1>6, <3>1, <3>2
    <3>4. Label(p[i]) = "enable"
      BY <1>7, <2>2, <2>5
    <3> QED  BY <3>3, <3>4 DEF Follows
  <2>6. m < 7 \/ m = 7
    OBVIOUS
  <2> QED  BY <2>4, <2>5, <2>6
<1>12. Label(p[7 * n]) = "enable"
  <2>1. n \in Ring /\ 7 \in 1 .. 7 /\ 7 * n \in 1 .. 7 * n /\ 7 * n = 7 * (n - 1) + 7
    BY <1>1, <1>3
  <2>2. p[7 * n] = OpenRing(n)[7]
    BY <1>10, <2>1
  <2> QED  BY <1>7, <2>1, <2>2
<1>13. Label(p[1]) = "openCq"
  <2>1. 1 \in Ring /\ 1 \in 1 .. 7 /\ 1 \in 1 .. 7 * n /\ 1 = 7 * (1 - 1) + 1
    BY <1>1, <1>3
  <2>2. p[1] = OpenRing(1)[1]
    BY <1>10, <2>1
  <2> QED  BY <1>6, <2>1, <2>2
<1>14. ASSUME NEW i \in 1 .. 7 * n, NEW j \in 1 .. 7 * n, NEW k \in Ring,
              Opens(p[i], k), Opens(p[j], k)
       PROVE  i = j
  <2>1. PICK a \in Ring, b \in 1 .. 7 : i = 7 * (a - 1) + b /\ p[i] = OpenRing(a)[b]
    BY <1>5
  <2>2. PICK c \in Ring, d \in 1 .. 7 : j = 7 * (c - 1) + d /\ p[j] = OpenRing(c)[d]
    BY <1>5
  <2>3. a = k /\ b = 1
    BY <1>6, <1>14, <2>1 DEF Opens
  <2>4. c = k /\ d = 1
    BY <1>6, <1>14, <2>2 DEF Opens
  <2> QED  BY <2>1, <2>2, <2>3, <2>4
<1>15. Orderly(p)
  <2>1. CanEnd(p[7 * n])
    BY <1>12 DEF CanEnd
  <2> QED  BY <1>8, <1>9, <1>11, <1>14, <2>1 DEF Orderly
<1> QED  BY <1>2, <1>9, <1>12, <1>13, <1>15

(* Interface.init: it disables every queue, opens the event queue and      *)
(* waits; then Interface.open.                                             *)
LEMMA InitProgram ==
    /\ Orderly(InitInterface \o OpenInterface) /\ InitInterface \o OpenInterface # <<>>
    /\ Label((InitInterface \o OpenInterface)[1]) = "off"
    /\ \A r \in Reg : \E j \in 1 .. Len(InitInterface \o OpenInterface) :
            Disables((InitInterface \o OpenInterface)[j], r)
<1> DEFINE E == <<Disable(EqReg)>>
           C == [i \in 1 .. NRx + NTx |-> Disable(CqReg(i - 1))]
           T == [i \in 1 .. NTx |-> Disable(<<"tx", i - 1>>)]
           R == [i \in 1 .. NRx |-> Disable(<<"rx", i - 1>>)]
           Q == <<Step("openEq", None), WriteStep("eqConfig", None),
                  WriteStep("eqEnable", None), WriteStep("eqArm", None), Step("drain", None)>>
           U == <<Step("drain", None), Step("up", None)>>
<1>1. NRx \in Nat /\ NTx \in Nat /\ NRx + NTx \in Nat
  BY Numbers
<1>2. \A r \in Reg \union {EqReg} : Disable(r) \in OffSteps /\ Disable(r).reg = r
  BY DEF OffSteps, Disable, ProgramStep, Label
<1>3. /\ \A i \in 1 .. NRx + NTx : CqReg(i - 1) \in Reg
      /\ \A i \in 1 .. NTx : <<"tx", i - 1>> \in Reg
      /\ \A i \in 1 .. NRx : <<"rx", i - 1>> \in Reg
  <2>1. ASSUME NEW i \in 1 .. NRx + NTx PROVE CqReg(i - 1) \in Reg
    <3>1. i - 1 \in HwCq
      BY <1>1 DEF HwCq
    <3> QED  BY <3>1, Registers
  <2>2. ASSUME NEW i \in 1 .. NTx PROVE <<"tx", i - 1>> \in Reg
    <3>1. i - 1 \in 0 .. NTx - 1
      BY <1>1
    <3> QED  BY <3>1 DEF Reg, HwRing
  <2>3. ASSUME NEW i \in 1 .. NRx PROVE <<"rx", i - 1>> \in Reg
    <3>1. i - 1 \in 0 .. NRx - 1
      BY <1>1
    <3> QED  BY <3>1 DEF Reg, HwRing
  <2> QED  BY <2>1, <2>2, <2>3
<1>4. /\ E \in Seq(OffSteps) /\ Len(E) = 1 /\ E[1] = Disable(EqReg)
      /\ C \in Seq(OffSteps) /\ Len(C) = NRx + NTx
      /\ T \in Seq(OffSteps) /\ Len(T) = NTx
      /\ R \in Seq(OffSteps) /\ Len(R) = NRx
  <2>1. E \in Seq(OffSteps) /\ Len(E) = 1 /\ E[1] = Disable(EqReg)
    BY <1>2
  <2>2. C \in [1 .. NRx + NTx -> OffSteps]
    BY <1>2, <1>3
  <2>3. T \in [1 .. NTx -> OffSteps]
    BY <1>2, <1>3
  <2>4. R \in [1 .. NRx -> OffSteps]
    BY <1>2, <1>3
  <2>5. C \in Seq(OffSteps) /\ Len(C) = NRx + NTx
    BY <1>1, <2>2
  <2>6. T \in Seq(OffSteps) /\ Len(T) = NTx
    BY <1>1, <2>3
  <2>7. R \in Seq(OffSteps) /\ Len(R) = NRx
    BY <1>1, <2>4
  <2> QED  BY <2>1, <2>5, <2>6, <2>7
<1>5. PICK a : a = DisableAll
  OBVIOUS
<1>6. a = ((E \o C) \o T) \o R
  BY <1>5 DEF DisableAll
<1>7. /\ \A i \in 1 .. NRx + NTx : C[i].reg = CqReg(i - 1)
      /\ \A i \in 1 .. NTx : T[i].reg = <<"tx", i - 1>>
      /\ \A i \in 1 .. NRx : R[i].reg = <<"rx", i - 1>>
  BY <1>2, <1>3
<1> HIDE DEF E, C, T, R
<1>8. PICK n \in Nat : n = Len(a)
  BY <1>4, <1>6
<1>9. /\ a \in Seq(OffSteps) /\ n >= 1 /\ a[1] = Disable(EqReg)
      /\ \A i \in 1 .. NRx + NTx : \E j \in 1 .. n : a[j] = C[i]
      /\ \A i \in 1 .. NTx : \E j \in 1 .. n : a[j] = T[i]
      /\ \A i \in 1 .. NRx : \E j \in 1 .. n : a[j] = R[i]
  <2>1. PICK ec : ec = E \o C
    OBVIOUS
  <2>2. /\ ec \in Seq(OffSteps) /\ Len(ec) = 1 + (NRx + NTx) /\ ec[1] = E[1]
        /\ \A i \in 1 .. NRx + NTx : 1 + i \in 1 .. Len(ec) /\ ec[1 + i] = C[i]
    <3>1. ec \in Seq(OffSteps) /\ After(E, C, ec)
      BY <1>4, <2>1, Joined
    <3> QED  BY <1>1, <1>4, <3>1 DEF After
  <2>3. PICK ect : ect = ec \o T
    OBVIOUS
  <2>4. /\ ect \in Seq(OffSteps) /\ Len(ect) = Len(ec) + NTx
        /\ \A j \in 1 .. Len(ec) : j \in 1 .. Len(ect) /\ ect[j] = ec[j]
        /\ \A i \in 1 .. NTx : Len(ec) + i \in 1 .. Len(ect) /\ ect[Len(ec) + i] = T[i]
    <3>1. ect \in Seq(OffSteps) /\ After(ec, T, ect)
      BY <1>4, <2>2, <2>3, Joined
    <3> QED  BY <1>4, <2>2, <3>1 DEF After
  <2>5. a = ect \o R
    BY <1>6, <2>1, <2>3
  <2>6. /\ a \in Seq(OffSteps) /\ n = Len(ect) + NRx
        /\ \A j \in 1 .. Len(ect) : j \in 1 .. n /\ a[j] = ect[j]
        /\ \A i \in 1 .. NRx : Len(ect) + i \in 1 .. n /\ a[Len(ect) + i] = R[i]
    <3>1. a \in Seq(OffSteps) /\ After(ect, R, a)
      BY <1>4, <2>4, <2>5, Joined
    <3> QED  BY <1>4, <1>8, <2>4, <3>1 DEF After
  <2>7. 1 \in 1 .. Len(ec) /\ 1 \in 1 .. Len(ect) /\ n >= 1
    BY <1>1, <2>2, <2>4, <2>6
  <2>8. a[1] = Disable(EqReg)
    <3>1. ect[1] = ec[1] /\ a[1] = ect[1]
      BY <2>4, <2>6, <2>7
    <3> QED  BY <1>4, <2>2, <3>1
  <2>9. \A i \in 1 .. NRx + NTx : 1 + i \in 1 .. n /\ a[1 + i] = C[i]
    BY <2>2, <2>4, <2>6
  <2>10. \A i \in 1 .. NTx : Len(ec) + i \in 1 .. n /\ a[Len(ec) + i] = T[i]
    BY <2>4, <2>6
  <2> QED  BY <2>6, <2>7, <2>8, <2>9, <2>10
<1>10. \A r \in Reg : \E j \in 1 .. n : a[j].reg = r
  <2> SUFFICES ASSUME NEW r \in Reg PROVE \E j \in 1 .. n : a[j].reg = r
    OBVIOUS
  <2>1. CASE r \notin HwRing
    <3>1. PICK c \in HwCq : r = CqReg(c)
      BY <2>1, Registers
    <3>2. c + 1 \in 1 .. NRx + NTx /\ (c + 1) - 1 = c
      BY <1>1 DEF HwCq
    <3> QED  BY <1>7, <1>9, <3>1, <3>2
  <2>2. CASE r \in HwRing
    <3>1. CASE r[1] = "tx"
      <4>1. PICK i \in 0 .. NTx - 1 : r = <<"tx", i>>
        BY <2>2, <3>1 DEF HwRing
      <4>2. i + 1 \in 1 .. NTx /\ (i + 1) - 1 = i
        BY <1>1
      <4> QED  BY <1>7, <1>9, <4>1, <4>2
    <3>2. CASE r[1] # "tx"
      <4>1. PICK i \in 0 .. NRx - 1 : r = <<"rx", i>>
        BY <2>2, <3>2 DEF HwRing
      <4>2. i + 1 \in 1 .. NRx /\ (i + 1) - 1 = i
        BY <1>1
      <4> QED  BY <1>7, <1>9, <4>1, <4>2
    <3> QED  BY <3>1, <3>2
  <2> QED  BY <2>1, <2>2
<1>11. /\ Orderly(a) /\ a # <<>> /\ \A j \in 1 .. n : Label(a[j]) = "off"
  <2>1. a # <<>>
    BY <1>8, <1>9
  <2>2. \A j \in 1 .. n : Label(a[j]) = "off"
    BY <1>8, <1>9 DEF OffSteps
  <2> QED  BY <1>9, <2>1, <2>2, PlainLists
<1>12. /\ Q \in Seq(FreeSteps) /\ Len(Q) = 5 /\ Q # <<>> /\ Q[1] = Step("openEq", None)
       /\ Q[5] = Step("drain", None)
       /\ U \in Seq(FreeSteps) /\ Len(U) = 2 /\ U # <<>> /\ U[1] = Step("drain", None)
  <2>1. /\ Step("openEq", None) \in FreeSteps /\ Step("drain", None) \in FreeSteps
        /\ Step("up", None) \in FreeSteps
    BY DEF FreeSteps, Step, ProgramStep, Label, Calls, Free
  <2>2. /\ WriteStep("eqConfig", None) \in FreeSteps /\ WriteStep("eqEnable", None) \in FreeSteps
        /\ WriteStep("eqArm", None) \in FreeSteps
    BY DEF FreeSteps, WriteStep, ProgramStep, Label, Writes, Free
  <2> QED  BY <2>1, <2>2
<1>13. Orderly(Q) /\ Orderly(U) /\ \A j \in 1 .. 5 : Label(Q[j]) # "openCq"
  BY <1>12, PlainLists
<1>14. Label(Q[1]) = "openEq" /\ Label(Q[5]) = "drain" /\ Label(U[1]) = "drain"
  BY <1>12 DEF Label, Step
<1>15. PICK b : b = InitInterface
  OBVIOUS
<1>16. b = a \o Q
  BY <1>5, <1>15 DEF InitInterface
<1>17. PICK d : d = OpenInterface
  OBVIOUS
<1>18. d = Openings \o U
  BY <1>17 DEF OpenInterface, Openings
<1>19. /\ Orderly(Openings) /\ Openings # <<>> /\ Label(Openings[1]) = "openCq"
       /\ Label(Openings[Len(Openings)]) = "enable"
  BY OpeningsOrderly
<1> HIDE DEF Q, U
<1>20. /\ Orderly(b) /\ b # <<>> /\ Len(b) = n + 5
       /\ \A j \in 1 .. n : b[j] = a[j]
       /\ \A j \in 1 .. 5 : b[n + j] = Q[j]
  <2>1. n \in 1 .. n
    BY <1>9
  <2>2. Follows(a[Len(a)], Q[1])
    BY <1>8, <1>11, <1>14, <2>1 DEF Follows, Free
  <2>3. \A j \in 1 .. Len(a) : Label(a[j]) # "openCq"
    BY <1>8, <1>11
  <2>4. Orderly(b) /\ b # <<>> /\ After(a, Q, b)
    BY <1>11, <1>12, <1>13, <1>16, <2>2, <2>3, OneAfterOther
  <2> QED  BY <1>8, <1>12, <2>4 DEF After
<1>21. /\ Orderly(d) /\ d # <<>> /\ d[1] = Openings[1]
  <2>1. Follows(Openings[Len(Openings)], U[1])
    BY <1>14, <1>19 DEF Follows, Free
  <2>2. \A j \in 1 .. Len(U) : Label(U[j]) # "openCq"
    BY <1>12, PlainLists
  <2>3. Orderly(d) /\ d # <<>> /\ After(Openings, U, d)
    BY <1>12, <1>13, <1>18, <1>19, <2>1, <2>2, OneAfterOther
  <2>4. 1 \in 1 .. Len(Openings)
    BY <1>19 DEF Orderly
  <2> QED  BY <2>3, <2>4 DEF After
<1>22. PICK s : s = b \o d
  OBVIOUS
<1>23. /\ Orderly(s) /\ s # <<>> /\ Len(s) = Len(b) + Len(d)
       /\ \A j \in 1 .. Len(b) : s[j] = b[j]
  <2>1. \A j \in 1 .. n : Label(b[j]) # "openCq"
    BY <1>11, <1>20
  <2>2. \A j \in 1 .. 5 : Label(b[n + j]) # "openCq"
    BY <1>13, <1>20
  <2>3. \A j \in 1 .. n + 5 : j \in 1 .. n \/ (j - n \in 1 .. 5 /\ n + (j - n) = j)
    OBVIOUS
  <2>4. \A j \in 1 .. Len(b) : Label(b[j]) # "openCq"
    <3> SUFFICES ASSUME NEW j \in 1 .. n + 5 PROVE Label(b[j]) # "openCq"
      BY <1>20
    <3>1. CASE j \in 1 .. n
      BY <2>1, <3>1
    <3>2. CASE j \notin 1 .. n
      <4>1. PICK i \in 1 .. 5 : j = n + i
        BY <2>3, <3>2
      <4> QED  BY <2>2, <4>1
    <3> QED  BY <3>1, <3>2
  <2>5. Follows(b[Len(b)], d[1])
    <3>1. b[n + 5] = Q[5]
      BY <1>20
    <3> QED  BY <1>14, <1>19, <1>20, <1>21, <3>1 DEF Follows, Free
  <2>6. Orderly(s) /\ s # <<>> /\ After(b, d, s)
    BY <1>20, <1>21, <1>22, <2>4, <2>5, OneAfterOther
  <2> QED  BY <2>6 DEF After
<1>24. \A j \in 1 .. n : j \in 1 .. Len(s) /\ s[j] = a[j]
  <2>1. Len(d) \in Nat
    BY <1>21 DEF Orderly
  <2>2. \A j \in 1 .. n : j \in 1 .. Len(b) /\ j \in 1 .. Len(s)
    BY <1>20, <1>23, <2>1
  <2> QED  BY <1>20, <1>23, <2>2
<1>25. Label(s[1]) = "off"
  <2>1. 1 \in 1 .. n
    BY <1>9
  <2> QED  BY <1>11, <1>24, <2>1
<1>26. \A r \in Reg : \E j \in 1 .. Len(s) : Disables(s[j], r)
  BY <1>10, <1>11, <1>24 DEF Disables
<1>27. s = InitInterface \o OpenInterface
  BY <1>15, <1>17, <1>22
<1> QED  BY <1>23, <1>25, <1>26, <1>27

(* Resource.__init__: the free list counts up.                             *)
LEMMA Counting ==
    ASSUME NEW n \in Nat, NEW s, s = [i \in 1 .. n |-> i - 1]
    PROVE  s \in Seq(0 .. n - 1) /\ Sorted(s) /\ ToSet(s) = 0 .. n - 1
<1>1. \A i \in 1 .. n : i - 1 \in 0 .. n - 1 /\ s[i] = i - 1
  OBVIOUS
<1>2. DOMAIN s = 1 .. n /\ s \in Seq(0 .. n - 1)
  BY <1>1
<1>3. Sorted(s)
  BY <1>1, <1>2 DEF Sorted
<1>4. ASSUME NEW x \in 0 .. n - 1 PROVE x \in ToSet(s)
  <2>1. x + 1 \in 1 .. n /\ s[x + 1] = x
    BY <1>1
  <2> QED  BY <1>2, <2>1 DEF ToSet
<1>5. ASSUME NEW x \in ToSet(s) PROVE x \in 0 .. n - 1
  <2>1. PICK i \in 1 .. n : x = s[i]
    BY <1>2 DEF ToSet
  <2> QED  BY <1>1, <2>1
<1> QED  BY <1>2, <1>3, <1>4, <1>5

(* The invariant holds when the test begins.                               *)
LEMMA InitOK == Init => IInv
<1> SUFFICES ASSUME Init PROVE IInv
  OBVIOUS
<1>1. PICK p : p = InitInterface \o OpenInterface
  OBVIOUS
<1>2. /\ program = p /\ Orderly(p) /\ p # <<>> /\ Label(p[1]) = "off"
      /\ \A r \in Reg : \E j \in 1 .. Len(p) : Disables(p[j], r)
  BY <1>1, InitProgram DEF Init
<1>3. \A r \in Reg : ToDisable(r)
  BY <1>2 DEF ToDisable
<1>4. \A n \in Half \union Whole : \A j : ~At(n, j)
  <2>1. Head(program) = p[1]
    BY <1>2, TailOrderly
  <2> QED  BY <1>2, <2>1 DEF At, Half, Whole
<1>5. \A k \in Ring : index[k] = None /\ cqn[k] = None
  BY DEF Init
<1>6. CqsOwned
  <2>1. NRx + NTx \in Nat /\ HwCq = 0 .. NRx + NTx - 1
    BY Numbers DEF HwCq
  <2>2. freeCq = [i \in 1 .. NRx + NTx |-> i - 1]
    BY DEF Init
  <2>3. freeCq \in Seq(HwCq) /\ Sorted(freeCq) /\ ToSet(freeCq) = HwCq
    <3>1. PICK n \in Nat : n = NRx + NTx
      BY <2>1
    <3>2. PICK s : s = freeCq
      OBVIOUS
    <3>3. s = [i \in 1 .. n |-> i - 1]
      BY <2>2, <3>1, <3>2
    <3>4. s \in Seq(0 .. n - 1) /\ Sorted(s) /\ ToSet(s) = 0 .. n - 1
      BY <3>3, Counting
    <3>5. HwCq = 0 .. n - 1
      <4>1. NRx + NTx - 1 = n - 1
        BY <3>1, Numbers
      <4> QED  BY <4>1 DEF HwCq
    <3> QED  BY <3>2, <3>4, <3>5
  <2>4. cqn \in [Ring -> HwCq \union {None}] /\ cqTable \in [HwCq -> Ring \union {None}]
    BY DEF Init
  <2>5. \A c \in HwCq : c \in ToSet(freeCq) <=> ~\E k \in Ring : cqn[k] = c
    BY <1>5, <2>3, Numbers
  <2>6. \A c \in HwCq : \A k \in Ring : cqn[k] = c <=> cqTable[c] = k
    <3>1. \A c \in HwCq : cqTable[c] = None
      BY DEF Init
    <3> QED  BY <1>5, <3>1, Numbers
  <2> QED  BY <2>3, <2>4, <2>5, <2>6 DEF CqsOwned
<1>7. IndicesOwned
  <2>1. ASSUME NEW q \in Kinds
        PROVE  /\ freeIndex[q] \in Seq(Slots(q)) /\ Sorted(freeIndex[q])
               /\ ToSet(freeIndex[q]) = Slots(q)
    <3>1. freeIndex[q] = [i \in 1 .. Count(q) |-> i - 1]
      BY DEF Init, Kinds
    <3>2. Count(q) \in Nat
      BY Numbers
    <3> QED  BY <3>1, <3>2, Counting DEF Slots
  <2>2. freeIndex \in [Kinds -> Seq(Nat)]
    <3>1. freeIndex = [q \in Kinds |-> freeIndex[q]]
      BY DEF Init, Kinds
    <3>2. \A q \in Kinds : freeIndex[q] \in Seq(Nat)
      <4> SUFFICES ASSUME NEW q \in Kinds PROVE freeIndex[q] \in Seq(Nat)
        OBVIOUS
      <4>1. Slots(q) \subseteq Nat
        BY Numbers DEF Slots
      <4> QED  BY <2>1, <4>1
    <3> QED  BY <3>1, <3>2
  <2>3. index \in [Ring -> Nat \union {None}]
    BY DEF Init
  <2>4. \A q \in Kinds : \A i \in Slots(q) :
            i \in ToSet(freeIndex[q]) <=> ~\E k \in Ring : Kind(k) = q /\ index[k] = i
    <3>1. \A q \in Kinds : Slots(q) \subseteq Nat
      BY Numbers DEF Slots
    <3> QED  BY <1>5, <2>1, <3>1, Numbers
  <2> QED  BY <1>5, <2>1, <2>2, <2>3, <2>4 DEF IndicesOwned
<1>8. /\ posted = <<>> /\ events = <<>> /\ handler.pc = "idle"
      /\ linked = {} /\ ~crashed
  BY DEF Init
<1>9. /\ \A h \in HwRing : hwRing[h].cq = None
      /\ \A c \in HwCq : hwCq[c].unread = 0
      /\ hwRing \in [HwRing -> [on : BOOLEAN, cfg : Ring \union {None}, cq : HwCq \union {None}]]
      /\ hwCq \in [HwCq -> [on : BOOLEAN, cfg : Ring \union {None}, armed : BOOLEAN, unread : Nat]]
  <2>1. PICK on \in Stale :
            /\ hwRing = [h \in HwRing |-> on]
            /\ hwCq = [c \in HwCq |->
                        [on |-> on.on, cfg |-> None, armed |-> FALSE, unread |-> 0]]
    BY DEF Init
  <2>2. on = Off \/ on = [Off EXCEPT !.on = TRUE]
    BY DEF Stale
  <2>3. on.on \in BOOLEAN /\ on.cq = None
        /\ on \in [on : BOOLEAN, cfg : Ring \union {None}, cq : HwCq \union {None}]
    <3>1. CASE on = Off
      BY <3>1 DEF Off
    <3>2. CASE on = [Off EXCEPT !.on = TRUE]
      <4>1. on = [on |-> TRUE, cfg |-> None, cq |-> None]
        BY <3>2 DEF Off
      <4> QED  BY <4>1
    <3> QED  BY <2>2, <3>1, <3>2
  <2>4. [on |-> on.on, cfg |-> None, armed |-> FALSE, unread |-> 0] \in
            [on : BOOLEAN, cfg : Ring \union {None}, armed : BOOLEAN, unread : Nat]
    BY <2>3
  <2> QED  BY <2>1, <2>3, <2>4
<1>10. Len(posted) = 0 /\ 1 .. 0 = {}
  BY <1>8
<1>11. HwTypes
  BY <1>8, <1>9, <1>10 DEF HwTypes
<1>12. Stages
  <2>1. \A k \in Ring : StageOf(k)
    BY <1>4, <1>5 DEF StageOf
  <2> QED  BY <1>5, <1>8, <2>1 DEF Stages
<1>13. RegistersOK
  <2>1. Lands
    BY <1>10 DEF Lands, LandsIn
  <2>2. \A k \in Ring : RingWillBe(k) /\ CqWillBe(k)
    <3>1. \A k \in Ring : cqn[k] \notin HwCq
      BY <1>5, Numbers
    <3> QED  BY <3>1 DEF RingWillBe, CqWillBe
  <2>3. SpareRings /\ SpareCqs
    BY <1>3, Registers DEF SpareRings, SpareCqs
  <2> QED  BY <2>1, <2>2, <2>3 DEF RegistersOK
<1>14. RxServed
  BY <1>9, <1>10, Numbers DEF RxServed
<1>15. EventsKnown
  <2>1. ToSet(events) = {}
    BY <1>8 DEF ToSet
  <2> QED  BY <1>9, <2>1 DEF EventsKnown, Pending
<1>16. NoCrash /\ Orderly(program)
  BY <1>2, <1>8 DEF NoCrash
<1> QED  BY <1>6, <1>7, <1>11, <1>12, <1>13, <1>14, <1>15, <1>16 DEF IInv

-----------------------------------------------------------------------------
(* The theorems                                                            *)

(* When the disabling is done and no write is on its way, a ring that is   *)
(* enabled is owned.                                                       *)
LEMMA RunsOwned == ASSUME IInv PROVE EnabledConfigured
<1> SUFFICES ASSUME Settled, posted = <<>>, NEW h \in HwRing, hwRing[h].on
             PROVE  \E k \in Ring :
                        /\ hwRing[h].cfg = k /\ RingReg(k) = h
                        /\ hwRing[h].cq = cqn[k]
                        /\ hwCq[cqn[k]].on /\ hwCq[cqn[k]].cfg = k
  BY DEF EnabledConfigured
<1>1. HwTypes /\ Orderly(program) /\ CqsOwned /\ IndicesOwned
  BY DEF IInv
<1>2. h \in Reg
  BY Registers
<1>3. \A r : ~ToDisable(r)
  <2>1. \A j \in 1 .. Len(program) : program[j] \in ProgramStep
    BY <1>1 DEF Orderly
  <2>2. DOMAIN program = 1 .. Len(program)
    BY <1>1 DEF Orderly
  <2> QED  BY <2>1, <2>2, Labels DEF Settled, ToDisable, Disables
<1>4. \A r \in Reg : OffEnd(r) <=> ~HwOn(r)
  <2> SUFFICES ASSUME NEW r \in Reg PROVE OffEnd(r) <=> ~HwOn(r)
    OBVIOUS
  <2>1. PICK on \in BOOLEAN : on = HwOn(r)
    BY <1>1, RegTypes
  <2>2. OffIn(<<>>, on, r, Len(<<>>)) <=> ~on
    BY NothingPosted
  <2> QED  BY <2>1, <2>2 DEF OffEnd
<1>5. \A r \in Reg : \A k, c : CfgEnd(r, k, c) <=> Holds(r, k, c)
  <2> SUFFICES ASSUME NEW r \in Reg, NEW k, NEW c PROVE CfgEnd(r, k, c) <=> Holds(r, k, c)
    OBVIOUS
  <2>1. PICK holds \in BOOLEAN : holds = Holds(r, k, c)
    BY <1>1, RegTypes
  <2>2. CfgIn(<<>>, holds, r, k, c) <=> holds
    BY NothingPosted
  <2> QED  BY <2>1, <2>2 DEF CfgEnd
<1>6. ~OffEnd(h)
  BY <1>1, <1>2, <1>4, RegTypes
<1>7. PICK k \in Ring : RingReg(k) = h
  BY <1>3, <1>6 DEF IInv, RegistersOK, SpareRings
<1>8. index[k] # None
  BY <1>1, <1>7, OwnRegister
<1>9. StageOf(k) /\ RingWillBe(k) /\ CqWillBe(k)
  BY DEF IInv, Stages, RegistersOK
<1>10. PICK c \in HwCq : c = cqn[k]
  BY <1>1, <1>8, <1>9 DEF StageOf, CqsOwned
<1>11. Holds(h, k, c)
  BY <1>2, <1>5, <1>6, <1>7, <1>9, <1>10 DEF RingWillBe
<1>12. \A n \in Half : ~At(n, k)
  BY <1>8, <1>9 DEF StageOf
<1>13. CfgEnd(CqReg(c), k, None) /\ ~OffEnd(CqReg(c))
  BY <1>9, <1>10, <1>12 DEF CqWillBe, Half
<1>14. CqReg(c) \in Reg
  BY Registers
<1>15. HwOn(CqReg(c)) /\ Holds(CqReg(c), k, None)
  BY <1>4, <1>5, <1>13, <1>14
<1>16. /\ hwRing[h].cfg = k /\ hwRing[h].cq = c
       /\ hwCq[c].on /\ hwCq[c].cfg = k
  BY <1>1, <1>11, <1>15, RegTypes
<1> QED  BY <1>7, <1>10, <1>16

(* The invariant holds of every behaviour, whatever the number of rings    *)
(* and of writes on their way.                                             *)
LEMMA InvariantHolds == Spec => []IInv
<1>1. Init => IInv
  BY InitOK
<1>2. IInv /\ [Next]_vars => IInv'
  BY StepKeeps
<1> QED  BY <1>1, <1>2, PTL DEF Spec

(* However rings are closed and opened by hand, an index is free or owned  *)
(* by one object, and a ring the hardware runs was configured by the       *)
(* object that owns its index, for a completion queue that is on and its   *)
(* own (Interface.init and open, Txq.open and close, Cq.open and close,    *)
(* Resource.alloc and free), for any number of queues and of register      *)
(* writes on their way.                                                    *)
THEOREM QueuesStayOwned == Spec => []QueuesOwned
<1>1. IInv => QueuesOwned
  BY Conserved, RunsOwned DEF IInv, QueuesOwned
<1> QED  BY <1>1, InvariantHolds, PTL

(* The interrupt handler never raises: every event it reads is of a        *)
(* completion queue in cq_table whose ring is linked (Eq.process_eq).      *)
THEOREM HandlerNeverRaises == Spec => []NoCrash
<1>1. IInv => NoCrash
  BY DEF IInv
<1> QED  BY <1>1, InvariantHolds, PTL
=============================================================================
