-------------------------------- MODULE MCCron -------------------------------
(* Two T-processes, as MAXTPROC in tconst.h. *)
EXTENDS Cron
=============================================================================
