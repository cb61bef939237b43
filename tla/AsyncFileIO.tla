---------------------------- MODULE AsyncFileIO ----------------------------
(***************************************************************************)
(* AsyncIOThread_Win32.cpp, the read requesters of System_Win32.cpp and    *)
(* AnoxLoadEntireFileJob.cpp: a job of the pool posts the read of a whole  *)
(* file, the I/O thread issues it in transfers of limited size, and the    *)
(* completion of the last one signals the job that waits for the file.     *)
(* The owner of the thread closes it.                                      *)
(*                                                                         *)
(* Abstractions.  A requester has one request, as in a load.  Positions    *)
(* are left out: what a transfer yields is the file system's choice, as    *)
(* are errors.  The lists are doubly linked in the code, and sequences     *)
(* here.  Writes take the same path and nothing in the program posts one.  *)
(***************************************************************************)
EXTENDS Integers, SequencesExt

CONSTANTS
  FileLoads,    \* AnoxFileResourcePostIOLoadJobRunners, each with its requester
  FileSizes,    \* the sizes a file may have
  MaxTransfer,  \* the most that one transfer asks for, MAXDWORD
  NoLoad

ASSUME AsyncIOAssumption ==
  NoLoad \notin FileLoads /\ FileSizes \subseteq Nat /\ MaxTransfer \in Nat \ {0}

VARIABLES
  size,        \* m_expectedBytes
  result,      \* what the load's job is signaled with, if it is
  remaining,   \* m_remainingBytes
  requested,   \* what the last transfer asked for: m_amountRequestedByLastRequest
  transfers,   \* the transfers the system is doing
  transferred, \* those that are done, with what they yield: completions to be delivered
  pending,     \* from m_firstPendingTask to m_lastPendingTask
  inProgress,  \* from m_firstInProgressTask to m_lastInProgressTask
  kicked,      \* m_threadKickEvent is signaled
  isClosing,   \* m_isClosing
  ioPlace, ioLoad,  \* what the I/O thread does next, and to which load
  draining,    \* it is in the loop that dequeues tasks, and not in a completion routine
  closer, flushed   \* what the owner of the thread does next, and the task it flushes

ioVars == <<size, result, remaining, requested, transfers, transferred, pending, inProgress, kicked,
            isClosing, ioPlace, ioLoad, draining, closer, flushed>>

loadVars == <<size, result, remaining, requested>>
systemVars == <<transfers, transferred>>
threadVars == <<ioPlace, ioLoad, draining>>
closeVars == <<closer, flushed>>

IsSettled(l) == result[l] # "none"

\* AnoxFileResourceIOCompleter::Complete: bytes have been read without an error.
CompletedWith(l, bytes) == IF bytes = size[l] THEN "ok" ELSE "error"

-----------------------------------------------------------------------------
(* AnoxFileResourcePostIOLoadJobRunner::Run.  If it fails, or if the file  *)
(* cannot be opened, it lets go of the signaler, which signals an error.   *)

LoadJobFails(l) ==
  /\ closer = "open" /\ ~IsSettled(l) /\ size[l] = 0
  /\ result' = [result EXCEPT ![l] = "error"]
  /\ UNCHANGED <<size, remaining, requested, systemVars, pending, inProgress, kicked, isClosing,
                 threadVars, closeVars>>

LoadsEmptyFile(l) ==
  /\ closer = "open" /\ ~IsSettled(l) /\ size[l] = 0 /\ 0 \in FileSizes
  /\ result' = [result EXCEPT ![l] = "ok"]
  /\ UNCHANGED <<size, remaining, requested, systemVars, pending, inProgress, kicked, isClosing,
                 threadVars, closeVars>>

\* PostReadRequest, and PostTask under the mutex.
PostRead(l) ==
  /\ closer = "open" /\ ~IsSettled(l) /\ size[l] = 0
  /\ \E n \in FileSizes \ {0} :
       /\ size' = [size EXCEPT ![l] = n]
       /\ remaining' = [remaining EXCEPT ![l] = n]
  /\ pending' = Append(pending, l)
  /\ kicked' = TRUE
  /\ UNCHANGED <<result, requested, systemVars, inProgress, isClosing, threadVars, closeVars>>

-----------------------------------------------------------------------------
(* The I/O thread.                                                         *)

\* The event resets itself.
WakeUp ==
  /\ ioPlace = "wait" /\ kicked
  /\ kicked' = FALSE
  /\ ioPlace' = "drain" /\ draining' = TRUE
  /\ UNCHANGED <<loadVars, systemVars, pending, inProgress, isClosing, ioLoad, closeVars>>

\* Mutant of AfterTask: the thread dequeues one task whenever it is kicked.
AfterTaskWait == "wait"

AfterTask == IF draining THEN "drain" ELSE "wait"

\* DequeueTask, and the end of the loop around it.
Dequeue ==
  /\ ioPlace = "drain"
  /\ IF pending # <<>>
     THEN /\ ioLoad' = Head(pending)
          /\ pending' = Tail(pending)
          /\ ioPlace' = "issue"
          /\ UNCHANGED draining
     ELSE /\ ioPlace' = IF isClosing THEN "exited" ELSE "wait"
          /\ draining' = FALSE
          /\ UNCHANGED <<ioLoad, pending>>
  /\ UNCHANGED <<loadVars, systemVars, inProgress, kicked, isClosing, closeVars>>

\* CheckedContinueRequest up to ReadFileEx, which may fail.
Issue ==
  LET amount == IF remaining[ioLoad] < MaxTransfer THEN remaining[ioLoad] ELSE MaxTransfer
  IN  /\ ioPlace = "issue"
      /\ requested' = [requested EXCEPT ![ioLoad] = amount]
      /\ \/ /\ transfers' = transfers \cup {ioLoad}
            /\ ioPlace' = "register"
            /\ UNCHANGED <<result, ioLoad>>
         \/ /\ result' = [result EXCEPT ![ioLoad] = "error"]
            /\ ioPlace' = AfterTask /\ ioLoad' = NoLoad
            /\ UNCHANGED transfers
      /\ UNCHANGED <<size, remaining, transferred, pending, inProgress, kicked, isClosing,
                     draining, closeVars>>

AddInProgressTask ==
  /\ ioPlace = "register"
  /\ inProgress' = Append(inProgress, ioLoad)
  /\ ioPlace' = AfterTask /\ ioLoad' = NoLoad
  /\ UNCHANGED <<loadVars, systemVars, pending, kicked, isClosing, draining, closeVars>>

\* The wait is interrupted by a completion: RemoveInProgressTask.
StartCompletion ==
  /\ ioPlace = "wait"
  /\ \E t \in transferred : ioLoad' = t.load /\ inProgress' = Remove(inProgress, t.load)
  /\ ioPlace' = "complete"
  /\ UNCHANGED <<loadVars, systemVars, pending, kicked, isClosing, draining, closeVars>>

IsLastTransfer(l, bytes) == bytes # requested[l] \/ remaining[l] = bytes

\* The rest of CompleteRequest.
CompleteRequest ==
  /\ ioPlace = "complete"
  /\ \E t \in transferred :
       /\ t.load = ioLoad
       /\ transferred' = transferred \ {t}
       /\ remaining' = [remaining EXCEPT ![ioLoad] = @ - t.bytes]
       /\ IF IsLastTransfer(ioLoad, t.bytes)
          THEN /\ result' = [result EXCEPT
                               ![ioLoad] = CompletedWith(ioLoad, size[ioLoad] - remaining'[ioLoad])]
               /\ ioPlace' = "wait" /\ ioLoad' = NoLoad
          ELSE ioPlace' = "issue" /\ UNCHANGED <<result, ioLoad>>
  /\ UNCHANGED <<size, requested, transfers, pending, inProgress, kicked, isClosing, draining,
                 closeVars>>

-----------------------------------------------------------------------------
(* The operating system ends a transfer, with anything from nothing to     *)
(* what was asked for.  The error code it passes is not looked at.         *)
Transfer(l) ==
  /\ l \in transfers /\ ioPlace # "exited"
  /\ transfers' = transfers \ {l}
  /\ \E n \in 0..requested[l] : transferred' = transferred \cup {[load |-> l, bytes |-> n]}
  /\ UNCHANGED <<loadVars, pending, inProgress, kicked, isClosing, threadVars, closeVars>>

-----------------------------------------------------------------------------
(* ~AsyncIOThread_Win32, when no job is left that could post.              *)

StartClose ==
  /\ closer = "open"
  /\ closer' = "cancel"
  /\ UNCHANGED <<loadVars, systemVars, pending, inProgress, kicked, isClosing, threadVars,
                 flushed>>

\* DequeueTask and Cancel, which finds no transfer to cancel and answers nothing.
CancelTask ==
  /\ closer = "cancel"
  /\ IF pending # <<>> THEN pending' = Tail(pending) /\ UNCHANGED closer
     ELSE closer' = "flush" /\ UNCHANGED pending
  /\ UNCHANGED <<loadVars, systemVars, inProgress, kicked, isClosing, threadVars, flushed>>

\* The first task in progress, if there is one, is looked up.
FindTask ==
  /\ closer = "flush"
  /\ IF inProgress # <<>> THEN flushed' = Head(inProgress) /\ closer' = "flushing"
     ELSE closer' = "stop" /\ UNCHANGED flushed
  /\ UNCHANGED <<loadVars, systemVars, pending, inProgress, kicked, isClosing, threadVars>>

\* Flush waits until no transfer of the task is going on.
FlushTask ==
  /\ closer = "flushing" /\ flushed \notin transfers
  /\ closer' = "flush" /\ flushed' = NoLoad
  /\ UNCHANGED <<loadVars, systemVars, pending, inProgress, kicked, isClosing, threadVars>>

\* m_isClosing is set, and then the thread is kicked.
StopThread ==
  /\ closer \in {"stop", "kick"}
  /\ isClosing' = TRUE
  /\ kicked' = (closer = "kick" \/ kicked)
  /\ closer' = IF closer = "stop" THEN "kick" ELSE "join"
  /\ UNCHANGED <<loadVars, systemVars, pending, inProgress, threadVars, flushed>>

Join ==
  /\ closer = "join" /\ ioPlace = "exited"
  /\ closer' = "joined"
  /\ UNCHANGED <<loadVars, systemVars, pending, inProgress, kicked, isClosing, threadVars,
                 flushed>>

-----------------------------------------------------------------------------

AsyncIOInit ==
  /\ size = [l \in FileLoads |-> 0] /\ result = [l \in FileLoads |-> "none"]
  /\ remaining = [l \in FileLoads |-> 0] /\ requested = [l \in FileLoads |-> 0]
  /\ transfers = {} /\ transferred = {}
  /\ pending = <<>> /\ inProgress = <<>> /\ kicked = FALSE /\ isClosing = FALSE
  /\ ioPlace = "wait" /\ ioLoad = NoLoad /\ draining = FALSE
  /\ closer = "open" /\ flushed = NoLoad

LoadJob(l) ==
  \/ LoadJobFails(l)
  \/ LoadsEmptyFile(l)
  \/ PostRead(l)

IOThread ==
  \/ WakeUp
  \/ Dequeue
  \/ Issue
  \/ AddInProgressTask
  \/ StartCompletion
  \/ CompleteRequest

Close ==
  \/ CancelTask
  \/ FindTask
  \/ FlushTask
  \/ StopThread
  \/ Join

AsyncIONext ==
  \/ \E l \in FileLoads : LoadJob(l) \/ Transfer(l)
  \/ IOThread
  \/ StartClose
  \/ Close

AsyncIOSpec == AsyncIOInit /\ [][AsyncIONext]_ioVars

-----------------------------------------------------------------------------

(* The type invariant of the variables above.                              *)
AsyncIOTypeOK ==
  /\ size \in [FileLoads -> FileSizes \cup {0}] /\ result \in [FileLoads -> {"none", "ok", "error"}]
  /\ remaining \in [FileLoads -> Nat] /\ requested \in [FileLoads -> 0..MaxTransfer]
  /\ transfers \subseteq FileLoads /\ transferred \subseteq [load : FileLoads, bytes : 0..MaxTransfer]
  /\ pending \in Seq(FileLoads) /\ inProgress \in Seq(FileLoads)
  /\ kicked \in BOOLEAN /\ isClosing \in BOOLEAN
  /\ ioPlace \in {"wait", "drain", "issue", "register", "complete", "exited"}
  /\ ioLoad \in FileLoads \cup {NoLoad} /\ draining \in BOOLEAN
  /\ closer \in {"open", "cancel", "flush", "flushing", "stop", "kick", "join", "joined"}
  /\ flushed \in FileLoads \cup {NoLoad}

(* A load whose read is posted is settled in the end, as read only if all  *)
(* of the file has been, unless the thread is closed meanwhile; and        *)
(* closing it comes to an end, whatever is still to be read.               *)
LoadsSettle ==
  /\ []<>(IF closer = "open" THEN \A l \in FileLoads : size[l] # 0 => IsSettled(l)
          ELSE closer = "joined")
  /\ [](\A l \in FileLoads : result[l] = "ok" => remaining[l] = 0 /\ l \notin transfers)
=============================================================================
