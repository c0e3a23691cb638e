--------------------------- MODULE MCActivityManager ---------------------------
(* The instance of ActivityManager that TLC checks.                        *)
EXTENDS ActivityManager

(* Everything the surroundings may do.                                     *)
AllEvents == EnvEvents

(* Enough for one wait to time out and the next one to be answered early.  *)
TimeoutOnly == {"Timeout"}
================================================================================
