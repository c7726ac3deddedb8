----------------------------- MODULE MCAllocine -----------------------------
(* A small instance of Allocine for TLC.                                    *)
EXTENDS Allocine

CONSTANTS s1, s2, s3, cron, job
=============================================================================
