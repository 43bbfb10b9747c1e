-------------------------------- MODULE Log ---------------------------------
(***************************************************************************)
(* The redo log of log.c over the buffer cache: begin_op, log_write,       *)
(* end_op, commit and recovery, with a crash possible between any two disk *)
(* writes.  A disk write (bwrite) is atomic.  A process that finds no room *)
(* in begin_op sleeps and looks again: its step is just not enabled.       *)
(***************************************************************************)
EXTENDS Integers, Sequences, FiniteSets, Functions

CONSTANTS
  Ops,          \* the processes that make file system calls
  Blocks,       \* the blocks outside the log
  Val, Zero,    \* what a block holds, and what mkfs writes
  NoVal,        \* not in the buffer cache
  NoBlock,      \* hold[p]: no buffer
  MAXOPBLOCKS, LOGSIZE,
  LogBlocks,    \* sb.nlog: blocks of the log on disk, header included
  AfterLog      \* the block that follows the log on disk

ASSUME LogAssumption ==
  /\ MAXOPBLOCKS \in Nat \ {0} /\ LOGSIZE \in Nat \ {0} /\ LogBlocks \in Nat
  /\ MAXOPBLOCKS <= LOGSIZE /\ LogBlocks >= 2 /\ IsFiniteSet(Ops)
  /\ Zero \in Val /\ NoVal \notin Val /\ NoBlock \notin Blocks /\ AfterLog \in Blocks

VARIABLES
  disk, logd, head,   \* on disk: home blocks, log blocks, the log header
  cache, dirty,       \* the buffers of home blocks, and which are B_DIRTY
  lh,                 \* log.lh.block[0 .. n-1]
  active,             \* the operations that log.outstanding counts
  hold,               \* the buffer an operation is about to log
  lpc, tail           \* where commit() or recovery is

diskVars == <<disk, logd, head>>
vars == <<disk, logd, head, cache, dirty, lh, active, hold, lpc, tail>>

n           == Len(lh)
outstanding == Cardinality(active)

(* A newly made file system, about to be mounted. *)
Init ==
  /\ disk = [b \in Blocks |-> Zero]
  /\ logd = [i \in 1..(LogBlocks - 1) |-> Zero]
  /\ head = <<>>
  /\ cache = [b \in Blocks |-> NoVal]
  /\ dirty = {}
  /\ lh = <<>>
  /\ active = {}
  /\ hold = [p \in Ops |-> NoBlock]
  /\ lpc = "boot"
  /\ tail = 1

-----------------------------------------------------------------------------
(* The buffer cache: what bread returns, and the reuse of clean buffers.   *)
Bread(b) == IF cache[b] = NoVal THEN disk[b] ELSE cache[b]

Evict(b) ==
  /\ cache[b] # NoVal /\ b \notin dirty /\ \A p \in Ops : hold[p] # b
  /\ lpc # "wild"
  /\ cache' = [cache EXCEPT ![b] = NoVal]
  /\ UNCHANGED <<diskVars, dirty, lh, active, hold, lpc, tail>>

-----------------------------------------------------------------------------
(* There is room for another operation of MAXOPBLOCKS blocks. *)
HasRoom == n + (outstanding + 1) * MAXOPBLOCKS <= LOGSIZE

(* begin_op(): lpc = "idle" says that log.committing is 0. *)
BeginOp(p) ==
  /\ lpc = "idle" /\ p \notin active /\ HasRoom
  /\ active' = active \cup {p}
  /\ UNCHANGED <<diskVars, cache, dirty, lh, hold, lpc, tail>>

(* Wrong: no limit. *)
PanicNever == outstanding < 1

(* log_write's tests, "too big a transaction" and "outside of trans". *)
MustPanic == n >= LOGSIZE \/ n >= LogBlocks - 1 \/ outstanding < 1

(* The caller, between begin_op and end_op, has the buffer of b locked,    *)
(* changes it and calls log_write, which makes its tests without log.lock. *)
(* A panic leaves the buffer locked.  Nothing limits the blocks that one   *)
(* operation logs: MAXOPBLOCKS only counts in begin_op.                    *)
LogCheck(p, b, v) ==
  /\ lpc = "idle" /\ p \in active /\ hold[p] = NoBlock
  /\ \A q \in Ops : hold[q] # b
  /\ cache' = [cache EXCEPT ![b] = v]
  /\ hold' = [hold EXCEPT ![p] = b]
  /\ lpc' = IF MustPanic THEN "panic" ELSE lpc
  /\ UNCHANGED <<diskVars, dirty, lh, active, tail>>

AppendAlways(b) == Append(lh, b)

(* The header h lists block b. *)
Listed(h, b) == \E i \in 1 .. Len(h) : h[i] = b

(* Log absorption: a block that is in the log already is not added. *)
Absorb(b) == IF Listed(lh, b) THEN lh ELSE Append(lh, b)

NoPin(b) == dirty

(* b->flags |= B_DIRTY *)
Pin(b) == dirty \cup {b}

(* The rest of log_write, under log.lock, and the caller's brelse.  A new  *)
(* entry behind the end of log.lh.block falls on unused memory or on what  *)
(* the kernel needs: then ("wild") what follows is not modelled.           *)
LogWrite(p) ==
  LET b == hold[p]
  IN /\ lpc = "idle" /\ b # NoBlock
     /\ lh' = Absorb(b)
     /\ dirty' = Pin(b)
     /\ hold' = [hold EXCEPT ![p] = NoBlock]
     /\ lpc' \in {"idle"} \cup {w \in {"wild"} : n >= LOGSIZE /\ ~Listed(lh, b)}
     /\ UNCHANGED <<diskVars, cache, active, tail>>

(* end_op(): the last operation commits, if there is anything to commit. *)
EndOp(p) ==
  /\ lpc = "idle" /\ p \in active /\ hold[p] = NoBlock
  /\ active' = active \ {p}
  /\ lpc' = IF active # {p} THEN "idle" ELSE IF n > 0 THEN "write" ELSE "done"
  /\ tail' = 1
  /\ UNCHANGED <<diskVars, cache, dirty, lh, hold>>

-----------------------------------------------------------------------------
(* write_log(): one log block.  A transaction that is longer than the log  *)
(* on disk runs into the block behind it.                                  *)
WriteLog ==
  LET v == Bread(lh[tail])
  IN /\ lpc = "write" /\ tail <= n
     /\ IF tail <= LogBlocks - 1
        THEN logd' = [logd EXCEPT ![tail] = v] /\ UNCHANGED disk
        ELSE disk' = [disk EXCEPT ![AfterLog] = v] /\ UNCHANGED logd
     /\ cache' = [cache EXCEPT ![lh[tail]] = v]
     /\ tail' = tail + 1
     /\ UNCHANGED <<head, dirty, lh, active, hold, lpc>>

(* write_head(): the real commit. *)
WriteHead ==
  /\ lpc = "write" /\ tail > n
  /\ head' = lh
  /\ lpc' = "install" /\ tail' = 1
  /\ UNCHANGED <<disk, logd, cache, dirty, lh, active, hold>>

(* install_trans(): one block, in commit() or in recovery. *)
InstallTrans ==
  LET b == lh[tail]
      v == IF tail <= LogBlocks - 1 THEN logd[tail] ELSE disk[AfterLog]
  IN /\ lpc \in {"install", "recover"} /\ tail <= n
     /\ disk' = [disk EXCEPT ![b] = v]
     /\ cache' = [cache EXCEPT ![b] = v]
     /\ dirty' = dirty \ {b}
     /\ tail' = tail + 1
     /\ UNCHANGED <<logd, head, lh, active, hold, lpc>>

KeepHead == head

(* The header that write_head() writes once log.lh.n is 0. *)
EmptyHead == <<>>

(* log.lh.n = 0; write_head() *)
ClearLog ==
  /\ lpc \in {"install", "recover"} /\ tail > n
  /\ lh' = <<>>
  /\ head' = EmptyHead
  /\ lpc' = IF lpc = "install" THEN "done" ELSE "idle"
  /\ UNCHANGED <<disk, logd, cache, dirty, active, hold, tail>>

(* end_op() again: log.committing = 0 *)
CommitDone ==
  /\ lpc = "done"
  /\ lpc' = "idle"
  /\ UNCHANGED <<diskVars, cache, dirty, lh, active, hold, tail>>

-----------------------------------------------------------------------------
(* The machine stops and starts again: memory is lost. *)
Crash ==
  /\ lpc \notin {"boot", "wild"}
  /\ cache' = [b \in Blocks |-> NoVal]
  /\ dirty' = {} /\ lh' = <<>> /\ active' = {}
  /\ hold' = [p \in Ops |-> NoBlock]
  /\ lpc' = "boot" /\ tail' = 1
  /\ UNCHANGED diskVars

(* initlog(), recover_from_log(): read_head *)
ReadHead ==
  /\ lpc = "boot"
  /\ lh' = head
  /\ lpc' = "recover" /\ tail' = 1
  /\ UNCHANGED <<diskVars, cache, dirty, active, hold>>

Next ==
  \/ \E b \in Blocks : Evict(b)
  \/ \E p \in Ops : BeginOp(p) \/ LogWrite(p) \/ EndOp(p)
  \/ \E p \in Ops, b \in Blocks, v \in Val : LogCheck(p, b, v)
  \/ WriteLog \/ WriteHead \/ InstallTrans \/ ClearLog \/ CommitDone
  \/ Crash \/ ReadHead

Spec == Init /\ [][Next]_vars

-----------------------------------------------------------------------------
(* The types; the transaction names no block twice (log_write absorbs).    *)
TypeOK ==
  /\ disk \in [Blocks -> Val]
  /\ logd \in [1..(LogBlocks - 1) -> Val]
  /\ head \in Seq(Blocks)
  /\ cache \in [Blocks -> Val \cup {NoVal}]
  /\ dirty \subseteq Blocks /\ active \subseteq Ops
  /\ lh \in Seq(Blocks) /\ IsInjective(lh)
  /\ hold \in [Ops -> Blocks \cup {NoBlock}]
  /\ lpc \in {"boot", "recover", "idle", "write", "install", "done", "panic", "wild"}
  /\ tail \in Nat \ {0}

(* The header on disk is empty whenever operations run: a crash between    *)
(* two commits replays nothing (commit and recovery both erase it).        *)
NothingToReplay == lpc \in {"idle", "done", "panic", "wild"} => head = <<>>

(* The longest transaction there can be.  log_write's test stops one that  *)
(* has as many blocks as the smaller of log.lh.block and the log on disk,  *)
(* but all the operations that begin_op admits at a time may pass it       *)
(* together: with the code's constants 31 blocks, for 30 in log.lh.block   *)
(* and 29 on disk.                                                         *)
Room    == IF LOGSIZE <= LogBlocks - 1 THEN LOGSIZE ELSE LogBlocks - 1
Longest == Room - 1 + LOGSIZE \div MAXOPBLOCKS

(* The log keeps its shape.  In memory no block is in the transaction      *)
(* twice, and however many blocks the operations log, and however they     *)
(* race past log_write's test, it never has more than Longest blocks.  On  *)
(* disk commit and recovery erase the header, so that a crash replays no   *)
(* transaction after the next one has begun.                               *)
LogSound == TypeOK /\ n <= Longest /\ NothingToReplay

(* What recovery would make of the disk as it is now. *)
Recovered ==
  [b \in Blocks |->
     IF Listed(head, b) THEN logd[CHOOSE i \in 1..Len(head) : head[i] = b]
     ELSE disk[b]]

Abstract == INSTANCE AtomicDisk WITH
  durable <- Recovered,
  current <- IF lpc \in {"boot", "recover"} THEN Recovered
             ELSE [b \in Blocks |-> Bread(b)]

(* Whatever is evicted, absorbed or interrupted by crashes (in recovery    *)
(* too), the log implements AtomicDisk: reads see the latest write, and a  *)
(* crash undoes exactly the operations since the last commit.              *)
Atomic == Abstract!Spec

(* log_write's own test, "too big a transaction": the transaction never    *)
(* outgrows the log on disk.                                               *)
LogFits == n <= LogBlocks - 1

=============================================================================
