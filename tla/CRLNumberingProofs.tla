-------------------------- MODULE CRLNumberingProofs --------------------------
(***************************************************************************)
(* What keeps CRL numbers increasing over rebuilt stores, for every bound. *)
(***************************************************************************)
EXTENDS CRLNumbering, SequenceTheorems, TLAPS

Inv == TypeOK /\ CounterInv /\ ProvidedIncrease

(* What drawing a number does to the last one handed out.                  *)
LEMMA LastAppended ==
    ASSUME TypeOK, NEW n \in Nat \ {0}, handed' = Append(handed, n)
    PROVE  /\ handed' \in Seq(Nat \ {0})
           /\ Len(handed') = Len(handed) + 1
           /\ \A i \in 1..Len(handed) : handed'[i] = handed[i]
           /\ handed'[Len(handed) + 1] = n
           /\ Last' = n
<1>1. handed \in Seq(Nat \ {0})
  BY DEF TypeOK
<1>2. /\ handed' \in Seq(Nat \ {0})
      /\ Len(handed') = Len(handed) + 1
      /\ \A i \in 1..Len(handed) : handed'[i] = handed[i]
      /\ handed'[Len(handed) + 1] = n
  BY <1>1, AppendProperties
<1>3. Len(handed) \in Nat
  BY <1>1, LenProperties
<1>4. handed' # << >>
  BY <1>2, <1>3, EmptySeq
<1>5. Last' = n
  BY <1>2, <1>4 DEF Last
<1> QED
  BY <1>2, <1>5

(* The last number is a natural number, and positive once there is one.    *)
LEMMA LastType ==
    ASSUME TypeOK
    PROVE  /\ Last \in Nat
           /\ handed # << >> => Last > 0
<1>1. handed \in Seq(Nat \ {0}) /\ Len(handed) \in Nat
  BY LenProperties DEF TypeOK
<1>2. CASE handed = << >>
  BY <1>2 DEF Last
<1>3. CASE handed # << >>
  <2>1. Len(handed) \in 1..Len(handed)
    BY <1>1, <1>3, EmptySeq
  <2>2. handed[Len(handed)] \in Nat \ {0}
    BY <1>1, <2>1, ElementOfSeq
  <2> QED
    BY <1>3, <2>2 DEF Last
<1> QED
  BY <1>2, <1>3

LEMMA NextNumberType ==
    ASSUME TypeOK
    PROVE  Seed \in Nat \ {0} /\ NextNumber \in Nat \ {0}
BY DEF TypeOK, Seed, NextNumber

LEMMA InitInv == Init => Inv
BY DEF Init, Inv, TypeOK, CounterInv, ProvidedIncrease, NumbersIncrease, Last

(* A counter, a floor above the last number and a reliable clock each give *)
(* a number above the last.                                                *)
LEMMA NextAboveLast ==
    ASSUME Inv, counter # 0 \/ floor > Last \/ reliable
    PROVE  NextNumber > Last
<1>1. Last \in Nat /\ clock \in Nat /\ floor \in Nat /\ counter \in Nat
  BY LastType DEF Inv, TypeOK
<1>2. CASE counter # 0
  BY <1>1, <1>2 DEF Inv, CounterInv, NextNumber
<1>3. CASE counter = 0 /\ floor > Last
  BY <1>1, <1>3 DEF NextNumber, Seed
<1>4. CASE counter = 0 /\ reliable
  <2>1. Last < clock
    BY <1>4 DEF Inv, CounterInv
  <2> QED
    BY <2>1, <1>1, <1>4 DEF NextNumber, Seed
<1> QED
  BY <1>2, <1>3, <1>4

LEMMA DrawInv == ASSUME Inv, DrawNumber PROVE Inv'
<1> DEFINE n == NextNumber
<1>1. n \in Nat \ {0}
  BY NextNumberType DEF Inv
<1>2. /\ handed' \in Seq(Nat \ {0})
      /\ Len(handed') = Len(handed) + 1
      /\ \A i \in 1..Len(handed) : handed'[i] = handed[i]
      /\ handed'[Len(handed) + 1] = n
      /\ Last' = n
  BY <1>1, LastAppended DEF Inv, DrawNumber
<1>3. Last \in Nat /\ Len(handed) \in Nat
  BY LastType, LenProperties DEF Inv, TypeOK
<1>4. reliable \in BOOLEAN /\ provided \in BOOLEAN /\ informed \in BOOLEAN
  BY DEF Inv, TypeOK
<1>5. /\ counter' = n /\ clock' = clock + 1 /\ floor' = floor /\ informed' = informed
      /\ reliable' = (reliable /\ n <= clock)
      /\ provided' = (provided /\ (counter # 0 \/ floor > Last \/ reliable))
  BY DEF DrawNumber
<1>6. provided' => provided /\ n > Last
  BY <1>4, <1>5, NextAboveLast
<1> HIDE DEF n
<1>7. TypeOK'
  <2>1. reliable' \in BOOLEAN /\ provided' \in BOOLEAN
    BY <1>5
  <2>2. clock \in Nat /\ floor \in Nat
    BY DEF Inv, TypeOK
  <2> QED
    BY <2>1, <2>2, <1>1, <1>2, <1>4, <1>5 DEF TypeOK
<1>8. ASSUME provided' PROVE \A i \in 1..Len(handed) : handed[i] \in Nat /\ handed[i] < n
  <2>1. provided /\ n > Last
    BY <1>6, <1>8
  <2>2. \A i \in 1..Len(handed) : handed[i] \in Nat /\ handed[i] <= Last
    BY <2>1, ElementOfSeq DEF Inv, TypeOK, CounterInv
  <2> QED
    BY <2>1, <2>2, <1>1, <1>3
<1>9. CounterInv'
  <2>1. counter' # 0 /\ counter' = Last'
    BY <1>1, <1>2, <1>5
  <2>2. ASSUME reliable' PROVE Last' < clock'
    <3>1. n <= clock /\ clock \in Nat
      BY <2>2, <1>4, <1>5 DEF Inv, TypeOK
    <3> QED
      BY <3>1, <1>1, <1>2, <1>5
  <2>3. ASSUME provided', NEW i \in 1..Len(handed') PROVE handed'[i] <= Last'
    <3>1. CASE i \in 1..Len(handed)
      BY <3>1, <2>3, <1>1, <1>2, <1>8
    <3>2. CASE i = Len(handed) + 1
      BY <3>2, <1>1, <1>2
    <3> QED
      BY <3>1, <3>2, <2>3, <1>2, <1>3
  <2> QED
    BY <2>1, <2>2, <2>3 DEF CounterInv
<1>10. ProvidedIncrease'
  <2>1. ASSUME provided', NEW i \in 1..Len(handed'), NEW j \in 1..Len(handed'), i < j
        PROVE  handed'[i] < handed'[j]
    <3>1. i \in 1..Len(handed)
      BY <2>1, <1>2, <1>3
    <3>2. provided
      BY <2>1, <1>6
    <3>3. CASE j \in 1..Len(handed)
      BY <3>1, <3>2, <3>3, <2>1, <1>2 DEF Inv, ProvidedIncrease, NumbersIncrease
    <3>4. CASE j = Len(handed) + 1
      BY <3>1, <3>4, <2>1, <1>2, <1>8
    <3> QED
      BY SMTT(30), <3>3, <3>4, <2>1, <1>2, <1>3
  <2> QED
    BY <2>1 DEF ProvidedIncrease, NumbersIncrease
<1> QED
  BY <1>7, <1>9, <1>10 DEF Inv

LEMMA NextInv == ASSUME Inv, [Next]_vars PROVE Inv'
<1>1. Last \in Nat
  BY LastType DEF Inv
<1>2. CASE DrawNumber
  BY <1>2, DrawInv
<1>3. ASSUME NEW f \in 0..MaxNumber, Rebuild(f) PROVE Inv'
  <2>1. /\ UNCHANGED <<clock, handed, reliable, provided>> /\ Last' = Last
        /\ counter' = 0 /\ floor' = f /\ f \in Nat
        /\ informed' = (informed /\ f >= Last)
    BY <1>3 DEF Rebuild, Last
  <2>2. TypeOK'
    BY <2>1 DEF Inv, TypeOK
  <2> QED
    BY <2>1, <2>2 DEF Inv, CounterInv, ProvidedIncrease, NumbersIncrease
<1>4. CASE PassTime
  <2>1. /\ clock' = clock + 1 /\ Last' = Last
        /\ UNCHANGED <<counter, floor, handed, reliable, informed, provided>>
    BY <1>4 DEF PassTime, Last
  <2>2. TypeOK' /\ ProvidedIncrease'
    BY <2>1 DEF Inv, TypeOK, ProvidedIncrease, NumbersIncrease
  <2>3. CounterInv'
    BY <1>1, <2>1 DEF Inv, TypeOK, CounterInv
  <2> QED
    BY <2>2, <2>3 DEF Inv
<1>5. ASSUME NEW t \in 0..MaxClock, SetBack(t) PROVE Inv'
  <2>1. /\ clock' = t /\ t \in Nat /\ reliable' = FALSE /\ Last' = Last
        /\ UNCHANGED <<counter, floor, handed, informed, provided>>
    BY <1>5 DEF SetBack, Last
  <2> QED
    BY <2>1 DEF Inv, TypeOK, CounterInv, ProvidedIncrease, NumbersIncrease
<1>6. CASE UNCHANGED vars
  BY <1>6 DEF vars, Inv, TypeOK, CounterInv, ProvidedIncrease, NumbersIncrease, Last
<1> QED
  BY <1>2, <1>3, <1>4, <1>5, <1>6 DEF Next

(* NextCRLNumber never repeats a number and never goes back, over every    *)
(* sequence of restarts, lost stores, floors and clocks set back in which  *)
(* each rebuilt store that drew a number had a floor above the last one or *)
(* a clock that was never set back and that no floor had outrun.           *)
THEOREM NumbersSafe == Spec => []ProvidedIncrease
<1>1. Inv => ProvidedIncrease
  BY DEF Inv
<1> QED
  BY InitInv, NextInv, <1>1, PTL DEF Spec

(* Whatever the operator does, a counter that exists is the last number    *)
(* handed out, so only a store without one can repeat it.                  *)
THEOREM CounterSafe == Spec => [](TypeOK /\ CounterInv)
<1>1. Inv => TypeOK /\ CounterInv
  BY DEF Inv
<1> QED
  BY InitInv, NextInv, <1>1, PTL DEF Spec
=============================================================================
