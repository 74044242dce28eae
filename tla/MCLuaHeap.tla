----------------------------- MODULE MCLuaHeap ------------------------------
(* Few objects of every kind.                                                        *)
EXTENDS LuaHeap, TLC

MCModes == {{}, {"k"}, {"v"}, {"k", "v"}}
MCSymmetry == Permutations(Tables) \cup Permutations(Udatas)
MCMainOnly == {"main"}
MCAllThreads == Threads
=============================================================================
