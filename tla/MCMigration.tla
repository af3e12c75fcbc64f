------------------------------ MODULE MCMigration ------------------------------
(***************************************************************************)
(* Migration with two processes, an old release and a new one, and          *)
(* migrations of one and two statements.                                    *)
(***************************************************************************)
EXTENDS Migration, TLC
CONSTANTS s1, s2
MCStatements == <<2, 1, 2>>
Newest == s2 :> 3
Rolling == s1 :> 2 @@ s2 :> 3
================================================================================
