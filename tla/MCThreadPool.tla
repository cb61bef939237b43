----------------------------- MODULE MCThreadPool -----------------------------
(* A pool of two workers, the main thread and one helper.                  *)
EXTENDS ThreadPool
CONSTANTS main, io, normal, helper, j1, j2, j3
TwoWorkers == <<io, normal>>
===============================================================================
