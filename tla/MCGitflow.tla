------------------------------ MODULE MCGitflow ------------------------------
(***************************************************************************)
(* Instances of Gitflow for TLC.                                           *)
(***************************************************************************)
EXTENDS Gitflow, TLC

CONSTANTS u1, u2, master, dev, f1, f2, public, dev_s, no_schema, no_tables

(* One user edits everything, or each user an object of its own.           *)
EditsAll == [u \in User |-> File]

EditsOwn == [u \in User |-> IF u = u1 THEN {f1} ELSE {f2}]

(* getSchema tells the branches apart.                                     *)
OwnSchemas == [b \in Branch |-> IF b = master THEN public ELSE dev_s]

=============================================================================
