----------------------------- MODULE MCStartup -----------------------------
(***************************************************************************)
(* Every list of up to five arguments.  "file" can be opened; "5" and the  *)
(* flags, which may be taken for a file name, cannot.  "-x" stands for an  *)
(* unknown flag and, behind -t, for a negative number.                     *)
(***************************************************************************)
EXTENDS Startup

MCFlag == [a \in {"/s", "-t", "-?", "-x", "file", "5"} |->
             IF a = "/s" THEN "s" ELSE IF a = "-t" THEN "t"
             ELSE IF a = "-?" THEN "?" ELSE IF a = "-x" THEN "unknown" ELSE "none"]
MCSeconds == [a \in DOMAIN MCFlag |-> IF a = "5" THEN 5 ELSE IF a = "-x" THEN -1 ELSE 0]
MCCommandLines == UNION {[1 .. n -> DOMAIN MCFlag] : n \in 0 .. 5}
=============================================================================
