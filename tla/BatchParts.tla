----------------------------- MODULE BatchParts -----------------------------
(***************************************************************************)
(* arm2x86_translate_batch_parallel (modules/arm2x86_easy.c): how a batch  *)
(* of blocks is cut into parts, one thread for each, and joined.  What a   *)
(* worker does with a block is in EasyApi; here it succeeds or fails.      *)
(***************************************************************************)
EXTENDS Integers, Sequences, FiniteSets

CONSTANTS
  BatchCalls,     \* the calls: [count, threads] with threads > 1
  WorkerMax       \* the threads a batch may have (16)

ASSUME BatchAssumption ==
  /\ WorkerMax \in Nat \ {0}
  /\ BatchCalls \subseteq [count : Nat \ {0}, threads : Nat \ {0, 1}]

VARIABLES
  call,           \* the arguments
  creating,       \* the part the first loop is at, or "done"
  part,           \* the workers created: part[t] = [next, end, ok]
  joining,        \* the thread the second loop is at
  success,        \* success_counts
  total,          \* total_success
  doneBy,         \* doneBy[i]: the workers that handled block i, or its failure
  unstarted,      \* parts with blocks whose thread could not be created (history)
  unjoinable,     \* a thread that was never created has been joined (history)
  batchDead       \* the process died of an access outside what it owns

batchVars == <<call, creating, part, joining, success, total, doneBy, unstarted, unjoinable,
               batchDead>>

-----------------------------------------------------------------------------
Fewer(a, b) == IF a < b THEN a ELSE b
num_threads == Fewer(Fewer(call.threads, call.count), WorkerMax)
chunk_size == (call.count + num_threads - 1) \div num_threads
PartStart(t) == t * chunk_size
(* Only the last part is cut at the number of blocks.                       *)
PartEnd(t) == IF t = num_threads - 1 THEN call.count ELSE PartStart(t) + chunk_size

(* The first loop: a thread for the next part; it ends at an empty part.    *)
(* The result of pthread_create is ignored, so a part may get no thread.    *)
CreateWorker ==
  /\ creating \in 0..num_threads - 1
  /\ \/ /\ PartStart(creating) >= PartEnd(creating)
        /\ creating' = num_threads /\ UNCHANGED <<part, unstarted>>
     \/ /\ PartStart(creating) < PartEnd(creating)
        /\ part' = [t \in DOMAIN part \union {creating} |->
                      IF t = creating THEN [next |-> PartStart(t), end |-> PartEnd(t), ok |-> 0]
                      ELSE part[t]]
        /\ creating' = creating + 1 /\ UNCHANGED unstarted
     \/ /\ PartStart(creating) < PartEnd(creating)
        /\ unstarted' = unstarted \union {creating}
        /\ creating' = creating + 1 /\ UNCHANGED part
  /\ UNCHANGED <<call, joining, success, total, doneBy, unjoinable, batchDead>>

Stored(t) == success' = [success EXCEPT ![t] = @ + part[t].ok]
(* translate_batch_worker: one block, which may fail; what is read as a     *)
(* block behind the batch may also kill the process.  At the end of the     *)
(* part the number of successes is stored.                                  *)
WorkerBlock(t) ==
  /\ part[t].next < part[t].end
  /\ \E ok \in BOOLEAN :
       /\ part' = [part EXCEPT ![t].next = @ + 1, ![t].ok = IF ok THEN @ + 1 ELSE @]
       /\ doneBy' = [i \in DOMAIN doneBy \union {part[t].next} |->
                       IF i # part[t].next THEN doneBy[i]
                       ELSE Append(IF i \in DOMAIN doneBy THEN doneBy[i] ELSE <<>>, ok)]
  /\ batchDead' \in {FALSE, part[t].next >= call.count}
  /\ UNCHANGED <<call, creating, joining, success, total, unstarted, unjoinable>>
WorkerEnd(t) ==
  /\ part[t].next = part[t].end
  /\ Stored(t)
  /\ part' = [part EXCEPT ![t].next = @ + 1]
  /\ UNCHANGED <<call, creating, joining, total, doneBy, unstarted, unjoinable, batchDead>>
WorkerEnded(t) == part[t].next > part[t].end

JoinedUnwaited(t) == TRUE
(* pthread_join waits for the thread.  For a thread that was never created  *)
(* it is given an uninitialised variable: it finds no thread and returns,   *)
(* or dies of what it reads.                                                *)
Joined(t) == t \in DOMAIN part => WorkerEnded(t)
(* The second loop joins every thread in turn and adds up.                  *)
JoinWorker ==
  /\ creating = num_threads /\ joining < num_threads
  /\ Joined(joining)
  /\ unjoinable' = (unjoinable \/ joining \notin DOMAIN part)
  /\ total' = total + success[joining]
  /\ joining' = joining + 1
  /\ batchDead' \in {FALSE, joining \notin DOMAIN part}
  /\ UNCHANGED <<call, creating, part, success, doneBy, unstarted>>

NoParts == [t \in {} |-> <<>>]
BatchInit ==
  /\ call \in BatchCalls
  /\ creating = 0 /\ joining = 0 /\ total = 0
  /\ unstarted = {} /\ unjoinable = FALSE /\ batchDead = FALSE
  /\ part = NoParts /\ doneBy = NoParts
  /\ success = [t \in 0..WorkerMax - 1 |-> 0]
BatchNext ==
  /\ ~batchDead
  /\ \/ CreateWorker \/ JoinWorker
     \/ \E t \in DOMAIN part : WorkerBlock(t) \/ WorkerEnd(t)
BatchSpec == BatchInit /\ [][BatchNext]_batchVars

-----------------------------------------------------------------------------
BatchReturns == joining = num_threads /\ ~batchDead

(* When a parallel batch returns, every block has been handled by exactly   *)
(* one worker, whatever the number of blocks and threads, except for the    *)
(* blocks of a part whose thread could not be created: nobody handled them, *)
(* and no worker is still at work (arm2x86_translate_batch_parallel).       *)
EachBlockOnce ==
  BatchReturns => \A i \in 0..call.count - 1 :
    \/ i \in DOMAIN doneBy /\ Len(doneBy[i]) = 1
    \/ i \notin DOMAIN doneBy /\ \E t \in unstarted : PartStart(t) <= i /\ i < PartEnd(t)

(* No worker is given a block behind the batch.  Not true of every call:    *)
(* with 5 blocks and 4 threads the third part ends behind the fifth block.  *)
WithinBatch == \A t \in DOMAIN part : part[t].end <= call.count

(* The value returned is the number of blocks of the batch that succeeded,  *)
(* with threads that could not be created too: each count is read after its *)
(* thread has been joined.  When a part ends behind the batch, what was     *)
(* read there is counted as well (arm2x86_translate_batch_parallel).        *)
TotalRight ==
  BatchReturns /\ WithinBatch =>
    total = Cardinality({i \in DOMAIN doneBy : i < call.count /\ doneBy[i] = <<TRUE>>})

(* A parallel batch handles every block of a part that has a thread once    *)
(* and returns the number of successes (arm2x86_translate_batch_parallel).  *)
BatchRight == EachBlockOnce /\ TotalRight

(* Not true of the code: only threads that were created are joined, the     *)
(* value returned is never more than the number of blocks, and a batch that *)
(* returned has handled all of them.                                        *)
JoinsCreated == ~unjoinable
TotalAtMostCount == BatchReturns => total <= call.count
AllHandled == BatchReturns => 0..call.count - 1 \subseteq DOMAIN doneBy
=============================================================================
