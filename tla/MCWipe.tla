------------------------------- MODULE MCWipe -------------------------------
(* Two directories within each other, and a file in each.                  *)
EXTENDS Wipe, TLC

Places  == {"Test", "dir", "sub", "x", "y"}
Parents == "dir" :> "Test" @@ "sub" :> "dir" @@ "x" :> "Test" @@ "y" :> "sub"
=============================================================================
