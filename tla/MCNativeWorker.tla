--------------------------- MODULE MCNativeWorker ---------------------------
(***************************************************************************)
(* Instances of NativeWorker for TLC: what the host may ask for and what   *)
(* may go wrong in each run.                                               *)
(***************************************************************************)
EXTENDS NativeWorker

\* One session: every command that ends something, and every fault.
EndingCommands == {"Cancel", "Close", "Release", "Shutdown", "Restart", "Metrics"}
EveryFault == {"NeedData", "SourceChanged", "OpenFailed", "OpenInvalid",
               "Undelivered", "Unsupported", "PolicyFailed", "RasterFailed",
               "InvalidPlan", "Mismatch"}

\* Two sessions that compete for surfaces and raster bytes.
SharingCommands == {"Close", "Shutdown", "Import"}
DataFaults == {"NeedData"}

OnlyClose == {"Close"}
OnlyShutdown == {"Shutdown"}
Nothing == {}

OneGeneration == {1}
TwoGenerations == {1, 2}
=============================================================================
