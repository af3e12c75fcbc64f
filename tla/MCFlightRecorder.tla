---------------------------- MODULE MCFlightRecorder ----------------------------
(***************************************************************************)
(* FlightRecorder with the functions an application calls most.             *)
(***************************************************************************)
EXTENDS FlightRecorder, TLC
CONSTANTS t1, t2, h1, h2
Everything == {"C_Initialize", "C_Finalize", "C_OpenSession", "C_CloseSession",
               "C_CloseAllSessions", "C_Login", "C_Logout", "C_SignInit", "C_Sign"}

\* Threads are interchangeable, and so are handles.
Symmetry == Permutations(Threads) \cup Permutations(Handles)
================================================================================
