----------------------------- MODULE CRLNumbering -----------------------------
(***************************************************************************)
(* The CRL numbers of one CA over the life of several stores.  CertStore   *)
(* has one store and a constant floor; here the store may be lost and      *)
(* rebuilt, with a floor an operator writes into ca.crl_number_floor, on a *)
(* host whose clock may be set back.                                       *)
(*                                                                         *)
(* Time is in milliseconds.  A number is drawn in a transaction SQLite     *)
(* syncs to disk (synchronous=full) and each is followed by a signature on *)
(* the token, so no two are drawn within one.                              *)
(***************************************************************************)
EXTENDS Integers, Sequences

CONSTANTS
    MaxClock,   \* bound: the clock stops here
    MaxNumber,  \* bound: no number and no floor above this one
    MaxDraws    \* bound: numbers handed out

VARIABLES
    clock,      \* the wall clock
    counter,    \* crl_counter.number; 0 when the row does not exist
    floor,      \* ca.crl_number_floor; 0 when unset
    handed,     \* history: the numbers handed out, in order
    \* history, of the host and of its operator
    reliable,   \* the clock was never set back and no number was above it
    informed,   \* every rebuild was given a floor not below the last number
    provided    \* every counter was seeded with a floor above the last
                \* number, or on a reliable clock

vars == <<clock, counter, floor, handed, reliable, informed, provided>>

Last == IF handed = <<>> THEN 0 ELSE handed[Len(handed)]

TypeOK ==
    /\ clock \in Nat
    /\ counter \in Nat
    /\ floor \in Nat
    /\ handed \in Seq(Nat \ {0})
    /\ reliable \in BOOLEAN
    /\ informed \in BOOLEAN
    /\ provided \in BOOLEAN

Init ==
    /\ clock = 1
    /\ counter = 0
    /\ floor = 0
    /\ handed = <<>>
    /\ reliable = TRUE
    /\ informed = TRUE
    /\ provided = TRUE

-----------------------------------------------------------------------------
(* seedCRLNumber, raised to the floor.                                     *)
Seed ==
    LET ms == IF clock < 1 THEN 1 ELSE clock
    IN  IF floor > ms THEN floor ELSE ms

NextNumber == IF counter = 0 THEN Seed ELSE counter + 1

(* NextCRLNumber.                                                          *)
DrawNumber ==
    /\ clock < MaxClock
    /\ Len(handed) < MaxDraws
    /\ NextNumber <= MaxNumber
    /\ counter' = NextNumber
    /\ handed' = Append(handed, NextNumber)
    /\ clock' = clock + 1
    /\ reliable' = (reliable /\ NextNumber <= clock)
    /\ provided' = (provided /\ (counter # 0 \/ floor > Last \/ reliable))
    /\ UNCHANGED <<floor, informed>>

(* The store is lost, and opened again with the floor f, whatever it is:   *)
(* Load refuses a negative one and nothing else.                           *)
Rebuild(f) ==
    /\ f \in Nat
    /\ counter' = 0
    /\ floor' = f
    /\ informed' = (informed /\ f >= Last)
    /\ UNCHANGED <<clock, handed, reliable, provided>>

PassTime ==
    /\ clock < MaxClock
    /\ clock' = clock + 1
    /\ UNCHANGED <<counter, floor, handed, reliable, informed, provided>>

SetBack(t) ==
    /\ t \in Nat
    /\ t < clock
    /\ clock' = t
    /\ reliable' = FALSE
    /\ UNCHANGED <<counter, floor, handed, informed, provided>>

-----------------------------------------------------------------------------
Next ==
    \/ DrawNumber
    \/ \E f \in 0..MaxNumber : Rebuild(f)
    \/ PassTime
    \/ \E t \in 0..MaxClock : SetBack(t)

Spec == Init /\ [][Next]_vars

-----------------------------------------------------------------------------
(* Every CRL number is above every earlier one: verifiers keep the higher  *)
(* number, and RFC 5280 lets them ignore a CRL that is not above it.       *)
NumbersIncrease ==
    \A i, j \in 1..Len(handed) : i < j => handed[i] < handed[j]

(* What an operator has to do for it, where nothing in NextCRLNumber does: *)
(* seed a rebuilt store on a clock that was never set back and that no     *)
(* floor has outrun, or with a floor above the last number.  Everything    *)
(* else may happen at any time: other floors while a counter exists,       *)
(* restarts, a clock set back after the seed.                              *)
ProvidedIncrease == provided => NumbersIncrease

(* Why that suffices: a counter is the last number, the clock is ahead of  *)
(* every number while it is reliable, and no number is above the last.     *)
CounterInv ==
    /\ counter # 0 => counter = Last
    /\ reliable => Last < clock
    /\ provided => \A i \in 1..Len(handed) : handed[i] <= Last

(* What NextCRLNumber promises, "greater than every number issued before", *)
(* of an operator who follows the comment on CRLNumberFloor: "An operator  *)
(* who knows the last number sets it here".                                *)
LastNumberIsEnough == informed => NumbersIncrease
=============================================================================
