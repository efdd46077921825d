--------------------------- MODULE MCCacheService ---------------------------
(* A small instance of the bucket cache: the job of a bucket and a command. *)
EXTENDS CacheService
CONSTANTS b1, cron, c1

MCCron == [b \in Buckets |-> cron]
=============================================================================
