---------------------------- MODULE MCResources ----------------------------
(* Four parts that hand out, give back or store something and share no      *)
(* state: each behaviour is about one of them, its subject, and the others  *)
(* stand still.                                                             *)
(*                                                                          *)
(* Three sessions share a pool of two suppressors; a behaviour about it     *)
(* either warms the pool whenever it likes, or only while no call leg is    *)
(* running, and the second kind is scheduled fairly.  Decoded sources of    *)
(* three units and logs of three, against pipes of one unit and a scanner   *)
(* buffer of two; one WAL writer at a time, which is out of file names at   *)
(* the end of its run.                                                      *)
EXTENDS FileDecode, FileBatch, BillingWAL, SuppressorPool

VARIABLES subject, warming

choice == <<subject, warming>>
resourcesVars == <<choice, poolVars, decodeVars, batchVars, walVars>>

(* One start of the pool stands for all: suppressors are interchangeable.   *)
FirstIdle == CHOOSE ss \in SUBSET Suppressors : Cardinality(ss) = Size

ResourcesInit ==
  /\ subject \in {"pool", "decode", "batch", "wal"}
  /\ warming \in {"anytime", "before traffic"}
  /\ NewSuppressorPool /\ DecodeInit /\ BatchInit /\ WALInit
  /\ idle = FirstIdle
  /\ subject # "pool" => warming = "anytime"
  /\ subject # "wal" => forwards
  /\ subject # "decode" => ff = "out" /\ child /\ ~statistics

ResourcesNext ==
  \/ /\ subject = "pool" /\ PoolNext
     /\ warming = "before traffic" => WarmBeforeTraffic
     /\ UNCHANGED <<choice, decodeVars, batchVars, walVars>>
  \/ subject = "decode" /\ DecodeNext /\ UNCHANGED <<choice, poolVars, batchVars, walVars>>
  \/ subject = "batch" /\ BatchNext /\ UNCHANGED <<choice, poolVars, decodeVars, walVars>>
  \/ subject = "wal" /\ WALNext /\ UNCHANGED <<choice, poolVars, decodeVars, batchVars>>

ResourcesSpec ==
  /\ ResourcesInit /\ [][ResourcesNext]_resourcesVars
  /\ \/ subject = "pool" /\ (warming = "before traffic" => PoolFairness)
     \/ subject = "decode" /\ DecodeFairness
     \/ subject = "batch" /\ BatchFairness
     \/ subject = "wal" /\ WALFairness

(* Where WarmPool is used as its comment says, nobody who calls the pool is *)
(* left waiting: each Release returns, each Acquire gets a suppressor or    *)
(* learns that the pool is closed.                                          *)
EveryCallReturns ==
  subject = "pool" /\ warming = "before traffic" => ReleaseReturns /\ AcquireServed

(* Nothing waits for ever: decodes and batches return, and what a crash     *)
(* left in the log directory is pushed by the next recovery.                *)
FilesEnd == DecodeEnds /\ BatchEnds /\ LeftBehindPushed
=============================================================================
