-------------------------------- MODULE Wipe --------------------------------
(***************************************************************************)
(* wipe, which empties the Test directory after a judging, while a process *)
(* of the solution that limit_run did not kill may still make files in it, *)
(* by a path or where it stands, before wipe has returned and after.       *)
(***************************************************************************)
EXTENDS Integers

CONSTANTS
  Nodes, Root,  \* places for files and directories; the Test directory
  Parent,       \* the directory each other place is in
  MaxCreated    \* bound: files that such a process makes

ASSUME WipeAssumption ==
  Root \in Nodes /\ Parent \in [Nodes \ {Root} -> Nodes] /\ MaxCreated \in Nat

(* Directories form a tree: going up from any of them leaves every set of  *)
(* places.                                                                 *)
ASSUME TreeAssumption ==
  \A T \in SUBSET (Nodes \ {Root}) : T # {} => \E n \in T : Parent[n] \notin T

(* "special" is whatever nftw() gives another type than a file's: a link   *)
(* to nowhere, a directory that cannot be read.                            *)
Kinds == {"dir", "file", "special"}

VARIABLES
  there,  \* the places where something is
  kind,   \* what it is
  late,   \* those that were made since the walk began
  fresh,  \* history: those that were made since mkdir()
  made,   \* how many were made
  pc,     \* "walk", "mkdir", "return", "done"
  res     \* res of main(), as the set of its bits 1, 2, 4

vars == <<there, kind, late, fresh, made, pc, res>>

Inside(d) == {n \in there \ {Root} : Parent[n] = d}

Init ==
  /\ there \in SUBSET Nodes /\ kind \in [Nodes -> Kinds] /\ kind[Root] = "dir"
  /\ \A n \in there \ {Root} : Parent[n] \in there /\ kind[Parent[n]] = "dir"
  /\ late = {} /\ fresh = {} /\ made = 0 /\ pc = "walk" /\ res = {}

Stop == pc' = "mkdir" /\ res' = {2} /\ UNCHANGED there

(* rm_funct: a directory comes after what was read in it, which need not   *)
(* be all that is in it now; the first failure ends the walk.              *)
Visit(n) ==
  /\ pc = "walk" /\ n \in there /\ Inside(n) \subseteq late
  /\ \/ /\ Inside(n) = {} /\ kind[n] # "special"
        /\ there' = there \ {n}
        /\ pc' = (IF n = Root THEN "mkdir" ELSE "walk") /\ UNCHANGED res
     \/ Stop
  /\ UNCHANGED <<kind, late, fresh, made>>

(* nftw() itself fails: there is no directory, or it cannot go on in it.   *)
WalkFails ==
  /\ pc = "walk" /\ pc' = "mkdir" /\ res' = {1}
  /\ UNCHANGED <<there, kind, late, fresh, made>>

MakeRoot == Root \notin there /\ there' = there \cup {Root} /\ fresh' = {}

(* res is assigned instead of added to, and a directory that exists is no  *)
(* failure.                                                                *)
Mkdir_Assigns ==
  /\ pc = "mkdir" /\ pc' = "return" /\ res' = {}
  /\ MakeRoot \/ UNCHANGED <<there, fresh>>
  /\ UNCHANGED <<kind, late, made>>

(* After a walk that failed the directory is not made again.               *)
Mkdir_IfClean ==
  /\ pc = "mkdir" /\ pc' = "return"
  /\ \/ res = {} /\ MakeRoot /\ UNCHANGED res
     \/ res # {} /\ UNCHANGED <<there, fresh, res>>
     \/ res = {} /\ res' = {4} /\ UNCHANGED <<there, fresh>>
  /\ UNCHANGED <<kind, late, made>>

(* The name ends in a slash: the directory is made again, however the walk *)
(* ended.  That fails when it exists, and may fail when it does not.       *)
Mkdir ==
  /\ pc = "mkdir" /\ pc' = "return"
  /\ \/ MakeRoot /\ UNCHANGED res
     \/ res' = res \cup {4} /\ UNCHANGED <<there, fresh>>
  /\ UNCHANGED <<kind, late, made>>

Return ==
  /\ pc = "return" /\ pc' = "done"
  /\ UNCHANGED <<there, kind, late, fresh, made, res>>

(* A process of the solution, in a directory that exists: where it stands, *)
(* or by a path, so also in the Test directory that was made again.        *)
Create(n) ==
  /\ n \notin there /\ n # Root
  /\ Parent[n] \in there /\ kind[Parent[n]] = "dir"
  /\ made < MaxCreated /\ made' = made + 1
  /\ there' = there \cup {n} /\ late' = late \cup {n} /\ fresh' = fresh \cup {n}
  /\ \E k \in Kinds : kind' = [kind EXCEPT ![n] = k]
  /\ UNCHANGED <<pc, res>>

Wipes == WalkFails \/ Mkdir \/ Return \/ \E n \in Nodes : Visit(n)
Next == Wipes \/ \E n \in Nodes : Create(n)
Spec == Init /\ [][Next]_vars /\ WF_vars(Wipes)

-----------------------------------------------------------------------------
(* Properties *)

(* If wipe returns 0, the Test directory is there, and nothing in it dates *)
(* from before it was made again: neither what the solution left nor what  *)
(* its processes made while wipe walked survives unreported.  What they    *)
(* make after the mkdir is met by the next solution, and 0 does not say    *)
(* that there is none (wipe.c:39-53).                                      *)
ZeroIsWiped ==
  pc \in {"return", "done"} /\ res = {} => Root \in there /\ there \ {Root} \subseteq fresh

(* wipe ends, and then the Test directory exists, even if it did not       *)
(* before, or the exit code says that it could not be made: without it no  *)
(* solution could be run (wipe.c:42).                                      *)
WipeEnds == <>(pc = "done" /\ (Root \in there \/ 4 \in res))
=============================================================================
