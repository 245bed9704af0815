----------------------------- MODULE ServerLock -----------------------------
(***************************************************************************)
(* The file server.lock that keeps the processes of one data directory     *)
(* apart (src/server/shared/lock.ts), with its users: servers, which hold  *)
(* the lock from listen to close (src/server/server.ts), and the command   *)
(* line, which changes the data itself when no server runs (the storage    *)
(* engines, through assertNoActiveServerLock).                             *)
(*                                                                         *)
(* Each call to the file system is a step.  A process may be killed at any *)
(* of them, which leaves the file as it is, and the process id may be used *)
(* again: in a container it always is.  The file is a link to an inode, so *)
(* a process may still write to one that has been unlinked.                *)
(*                                                                         *)
(* AlwaysReadAgain and StaleIfForeign are slips the code might have made   *)
(* at the definition that follows each; nothing uses them but the tests of *)
(* the properties.                                                         *)
(***************************************************************************)
EXTENDS Integers, FiniteSets

CONSTANTS Processes,   \* process ids
          Missing      \* no file, or no file descriptor

\* What is read from a file that is empty.
Blank == "blank"

ASSUME LockAssumption ==
  /\ IsFiniteSet(Processes) /\ Blank \notin Processes
  /\ Missing \notin Nat

VARIABLES file,        \* the inode that server.lock names
          pidIn,       \* pidIn[i] : the process id in inode i, or Blank
          fd,          \* fd[p] : the inode that p has open for writing
          pc,          \* pc[p] : the next call of process p
          overlapped   \* HISTORY VARIABLE: did a process ever begin to look at
                       \* the lock while another one, or a command, was at it?

lockVars == <<file, pidIn, fd, pc, overlapped>>

\* Enough inodes for the file and every descriptor.
Inodes == 0..Cardinality(Processes)

\* The states of a process: it runs no server, acquires the lock, holds it,
\* gives it up, closes its storage, runs a command, or is dead.
Acquiring == {"create", "read", "unlink", "retry", "rewrite", "write"}
Holding == {"held", "release", "unlinkOwn"}
Checking == {"check", "unlinkForCommand"}
States == {"out", "closing", "command", "dead"} \cup Acquiring \cup Holding \cup Checking

Alive(p) == pc[p] # "dead"
Unlink == file' = Missing

\* p is between two calls that look at the lock, or runs a command.
AtLock(p) == pc[p] \in Acquiring \cup Checking \cup {"command"}
Alone(p) == \A q \in Processes \ {p} : ~AtLock(q)

GoTo(p, state) ==
  /\ pc' = [pc EXCEPT ![p] = state]
  /\ overlapped' = (overlapped \/ (state \in {"create", "check"} /\ ~Alone(p)))

LockInit ==
  /\ file = Missing /\ pidIn = [i \in Inodes |-> Blank]
  /\ fd = [p \in Processes |-> Missing] /\ pc = [p \in Processes |-> "out"]
  /\ overlapped = FALSE

-----------------------------------------------------------------------------
(* acquireServerLock                                                       *)

Start(p) ==
  /\ pc[p] = "out" /\ GoTo(p, "create")
  /\ UNCHANGED <<file, pidIn, fd>>

\* The file is created, empty, with p about to write its process id.
Creates(p) ==
  \E i \in Inodes :
    /\ i # file /\ \A q \in Processes : fd[q] # i
    /\ file' = i
    /\ pidIn' = [pidIn EXCEPT ![i] = Blank]
    /\ fd' = [fd EXCEPT ![p] = i]
    /\ GoTo(p, "write")

AlwaysReadAgain(p) == "read"

\* What a failed attempt to create the file leads to: the second one is the last.
AfterExists(p) == IF pc[p] = "create" THEN "read" ELSE "out"

\* openSync with the flags 'wx', which fails when there is a file
CreateFile(p) ==
  /\ pc[p] \in {"create", "retry"}
  /\ \/ file = Missing /\ Creates(p)
     \/ /\ file # Missing
        /\ GoTo(p, AfterExists(p))
        /\ UNCHANGED <<file, pidIn, fd>>

Write(p) ==
  /\ pc[p] = "write"
  /\ pidIn' = [pidIn EXCEPT ![fd[p]] = p]
  /\ fd' = [fd EXCEPT ![p] = Missing]
  /\ GoTo(p, "held")
  /\ UNCHANGED file

StaleIfForeign(p) == file # Missing /\ pidIn[file] # p

\* What p must find in the file to remove it: the id of a dead process, or
\* nothing that can be parsed.
IsStale(p) ==
  file # Missing /\ (pidIn[file] = Blank \/ ~Alive(pidIn[file]))

\* readServerLock
Read(p) ==
  /\ pc[p] = "read"
  /\ GoTo(p, IF file = Missing THEN "retry"
             ELSE IF IsStale(p) THEN "unlink"
             ELSE IF pidIn[file] = p THEN "rewrite"
             ELSE "out")
  /\ UNCHANGED <<file, pidIn, fd>>

UnlinkStale(p) ==
  /\ pc[p] = "unlink"
  /\ Unlink /\ GoTo(p, "retry")
  /\ UNCHANGED <<pidIn, fd>>

\* The lock is p's own: writeFileSync opens it, emptying or creating it.
Rewrite(p) ==
  /\ pc[p] = "rewrite"
  /\ \/ file = Missing /\ Creates(p)
     \/ /\ file # Missing
        /\ pidIn' = [pidIn EXCEPT ![file] = Blank]
        /\ fd' = [fd EXCEPT ![p] = file]
        /\ GoTo(p, "write")
        /\ UNCHANGED file

-----------------------------------------------------------------------------
(* The lock is given up, in close before the storage is closed              *)

CloseServer(p) ==
  /\ pc[p] = "held"
  /\ GoTo(p, "release")
  /\ UNCHANGED <<file, pidIn, fd>>

\* A release is followed by the rest of close, or by another acquisition: listen
\* takes the lock again when the port turns out to be another (server.ts:350-352).
AfterRelease == {"closing", "create"}

\* release, unless the lock has become another's
Release(p) ==
  /\ pc[p] = "release"
  /\ IF file # Missing /\ pidIn[file] = p THEN GoTo(p, "unlinkOwn")
     ELSE \E state \in AfterRelease : GoTo(p, state)
  /\ UNCHANGED <<file, pidIn, fd>>

UnlinkOwn(p) ==
  /\ pc[p] = "unlinkOwn"
  /\ Unlink
  /\ \E state \in AfterRelease : GoTo(p, state)
  /\ UNCHANGED <<pidIn, fd>>

Closed(p) ==
  /\ pc[p] = "closing" /\ GoTo(p, "out")
  /\ UNCHANGED <<file, pidIn, fd>>

-----------------------------------------------------------------------------
(* A command that changes the data of a storage engine directly            *)

Command(p) ==
  /\ pc[p] = "out" /\ GoTo(p, "check")
  /\ UNCHANGED <<file, pidIn, fd>>

\* assertNoActiveServerLock; readServerLock removes the file here too.
Check(p) ==
  /\ pc[p] = "check"
  /\ GoTo(p, IF file = Missing THEN "command"
             ELSE IF IsStale(p) THEN "unlinkForCommand"
             ELSE IF pidIn[file] = p THEN "command"
             ELSE "out")
  /\ UNCHANGED <<file, pidIn, fd>>

UnlinkForCommand(p) ==
  /\ pc[p] = "unlinkForCommand"
  /\ Unlink /\ GoTo(p, "command")
  /\ UNCHANGED <<pidIn, fd>>

EndCommand(p) ==
  /\ pc[p] = "command" /\ GoTo(p, "out")
  /\ UNCHANGED <<file, pidIn, fd>>

-----------------------------------------------------------------------------
Crash(p) ==
  /\ Alive(p) /\ GoTo(p, "dead")
  /\ fd' = [fd EXCEPT ![p] = Missing]
  /\ UNCHANGED <<file, pidIn>>

\* A process is started under the id of a dead one.
Respawn(p) ==
  /\ pc[p] = "dead" /\ GoTo(p, "out")
  /\ UNCHANGED <<file, pidIn, fd>>

ServerNext(p) ==
  \/ CreateFile(p) \/ Write(p) \/ Read(p) \/ UnlinkStale(p) \/ Rewrite(p)
  \/ Release(p) \/ UnlinkOwn(p) \/ Closed(p)

CommandNext(p) == Check(p) \/ UnlinkForCommand(p) \/ EndCommand(p)

LockNext ==
  \E p \in Processes :
    \/ Start(p) \/ CloseServer(p) \/ ServerNext(p)
    \/ Command(p) \/ CommandNext(p)
    \/ Crash(p) \/ Respawn(p)

LockSpec == LockInit /\ [][LockNext]_lockVars

\* Fairness: the calls of a process are made one after the other.  Nobody has to
\* start a server or a command, to close a server or to be killed.
FairLockSpec ==
  LockSpec /\ \A p \in Processes : WF_lockVars(ServerNext(p)) /\ WF_lockVars(CommandNext(p))

-----------------------------------------------------------------------------
(* Properties                                                              *)

\* Every variable has its type.
TypeOK ==
  /\ file \in Inodes \cup {Missing}
  /\ pidIn \in [Inodes -> Processes \cup {Blank}]
  /\ fd \in [Processes -> Inodes \cup {Missing}]
  /\ pc \in [Processes -> States] /\ overlapped \in BOOLEAN

\* The lock is exclusive (lock.ts:110-111): no two servers hold it.
Exclusive ==
  \A p, q \in Processes : p # q /\ pc[p] \in Holding => pc[q] \notin Holding

\* What holds of it: whatever the crashes and the process ids used again, two
\* servers only hold the lock once two attempts to get it have overlapped.
ExclusiveInTurn == overlapped \/ Exclusive

\* No command changes the data while another process's server holds the lock
\* (lock.ts:90), with the same proviso.
CommandsStayOut ==
  overlapped \/ \A p, q \in Processes :
                   p # q /\ pc[p] = "command" => pc[q] \notin Holding

\* While a server holds the lock, the file is there and names it: nobody has
\* removed or replaced it, and whoever looks is told of the server.
FileNamesHolder ==
  \A p \in Processes : pc[p] \in Holding => file # Missing /\ pidIn[file] = p

\* One process at a time is at the lock.
OneAtATime == \A p, q \in Processes : p # q /\ AtLock(p) => ~AtLock(q)

\* Only a process about to write has the file open.
DescriptorIsFile ==
  \A p \in Processes :
    IF pc[p] = "write" THEN fd[p] = file /\ file # Missing ELSE fd[p] = Missing

\* A process that has found no live owner goes on without there being one.
NoHolderFound ==
  \A p, q \in Processes :
    pc[p] \in {"unlink", "retry", "rewrite", "write", "unlinkForCommand", "command"}
      => pc[q] \notin Holding

\* The strengthening of ExclusiveInTurn and CommandsStayOut that every step
\* keeps (lock.ts:118-191).
InTurn == FileNamesHolder /\ OneAtATime /\ DescriptorIsFile /\ NoHolderFound
Inductive == TypeOK /\ (overlapped \/ InTurn)

\* An attempt to get the lock comes to an end, whatever others do meanwhile: it
\* never waits for them, nor tries for ever (lock.ts:139-172).
AttemptsEnd ==
  \A p \in Processes : pc[p] \in Acquiring ~> pc[p] \notin Acquiring

=============================================================================
