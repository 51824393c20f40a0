----------------------------- MODULE WipeProofs -----------------------------
(***************************************************************************)
(* That wipe tells the truth when it returns 0, whatever is made in the    *)
(* directory while it walks and after: proved for every tree and every     *)
(* number of files.                                                        *)
(***************************************************************************)
EXTENDS Wipe, TLAPS

Closed == there \subseteq Nodes /\ \A n \in there \ {Root} : Parent[n] \in there

(* What is in the directory is reached from it.  A walk that reports no    *)
(* failure has removed it, and without it nothing can be made.             *)
WipeInv ==
  /\ Closed
  /\ pc = "mkdir" /\ res = {} => Root \notin there
  /\ ZeroIsWiped

(* Without the directory there is nothing in it: whatever is there has a   *)
(* topmost directory, which can only be Root.                              *)
LEMMA NothingWithoutRoot ==
  ASSUME Closed, Root \notin there
  PROVE  there = {}
<1> SUFFICES ASSUME there # {} PROVE FALSE
  OBVIOUS
<1>1. there \in SUBSET (Nodes \ {Root})
  BY DEF Closed
<1>2. PICK n \in there : Parent[n] \notin there
  BY <1>1, TreeAssumption
<1> QED BY <1>1, <1>2 DEF Closed

LEMMA WipeInvStep == WipeInv /\ [Next]_vars => WipeInv'
<1> SUFFICES ASSUME WipeInv, [Next]_vars PROVE WipeInv'
  OBVIOUS
<1> USE DEF WipeInv, Closed, ZeroIsWiped
<1>1. CASE WalkFails
  BY <1>1 DEF WalkFails
<1>2. CASE Mkdir
  <2>1. CASE MakeRoot /\ UNCHANGED res
    <3>1. there = {}
      BY <2>1, NothingWithoutRoot DEF MakeRoot
    <3> QED BY <1>2, <2>1, <3>1, WipeAssumption DEF Mkdir, MakeRoot
  <2>2. CASE res' = res \cup {4} /\ UNCHANGED <<there, fresh>>
    BY <1>2, <2>2 DEF Mkdir
  <2> QED BY <1>2, <2>1, <2>2 DEF Mkdir
<1>3. CASE Return
  BY <1>3 DEF Return
<1>4. ASSUME NEW n \in Nodes, Visit(n) PROVE WipeInv'
  <2>1. CASE Inside(n) = {} /\ there' = there \ {n} /\ UNCHANGED res
             /\ pc' = (IF n = Root THEN "mkdir" ELSE "walk")
    <3>1. \A m \in there \ {Root} : Parent[m] # n
      BY <2>1 DEF Inside
    <3>2. Closed'
      BY <2>1, <3>1
    <3> QED BY <2>1, <3>2
  <2>2. CASE Stop
    BY <2>2 DEF Stop
  <2> QED BY <1>4, <2>1, <2>2 DEF Visit
<1>5. ASSUME NEW n \in Nodes, Create(n) PROVE WipeInv'
  <2>1. /\ n # Root /\ Parent[n] \in there /\ UNCHANGED <<pc, res>>
        /\ there' = there \cup {n} /\ fresh' = fresh \cup {n}
    BY <1>5 DEF Create
  <2>2. Root \notin there => there = {}
    BY NothingWithoutRoot
  <2> QED BY <2>1, <2>2
<1>6. CASE UNCHANGED vars
  BY <1>6 DEF vars
<1> QED BY <1>1, <1>2, <1>3, <1>4, <1>5, <1>6 DEF Next, Wipes

(* If wipe returns 0, the Test directory is there and holds nothing from   *)
(* before the mkdir, whatever the solution left in it and however many     *)
(* files its processes make, at any moment until the return and after it:  *)
(* a mkdir succeeds only where the walk has removed the directory, and     *)
(* nothing is made below a directory that is gone (wipe.c:39-53).          *)
THEOREM WipedWhenZero == Spec => []ZeroIsWiped
<1>1. Init => WipeInv
  BY DEF Init, WipeInv, Closed, ZeroIsWiped
<1>2. WipeInv => ZeroIsWiped
  BY DEF WipeInv
<1> QED BY <1>1, <1>2, WipeInvStep, PTL DEF Spec
=============================================================================
