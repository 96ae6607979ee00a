------------------------------ MODULE MCFileLRU ------------------------------
(* Instances of FileLRU for TLC: one of the files is also asked for by      *)
(* another spelling of its name.                                            *)
EXTENDS FileLRU

CONSTANTS Twice,   \* the file with two names
          Spelling \* the other one, "//a.html"

MCNames == Files \union {Spelling}
MCFileOf == [name \in MCNames |-> IF name = Spelling THEN Twice ELSE name]

=============================================================================
