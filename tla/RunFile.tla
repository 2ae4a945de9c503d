------------------------------ MODULE RunFile ------------------------------
(***************************************************************************)
(* The run file that makes a running relay agent findable, and keeps a     *)
(* second one from starting over its battle                                *)
(* (coilbox-relay-agent/src/run_file.rs).                                  *)
(*                                                                         *)
(* Every member of Agent is one agent process, started at most once and    *)
(* perhaps killed at any step.  A file is named by the agent that created  *)
(* it, so that an agent writing to a file somebody has since removed and   *)
(* created again writes to its own.  When an agent is dead the operating   *)
(* system may give its process id to a stranger.  Starts overlap one       *)
(* another and agents leaving in any way; what may be said of one agent    *)
(* depends on whether its own start did, which `crossed` remembers.        *)
(***************************************************************************)
EXTENDS Naturals

CONSTANTS
  Agent,    \* agent processes
  NoAgent   \* no process

ASSUME RunFileAssumption == NoAgent \notin Agent

VARIABLES
  pc,        \* where each agent is
  runFile,   \* who created the file at the run file's path
  said,      \* what each agent's file says: nothing yet, "locked", "unlocked"
  lockFile,  \* who created the file at lock_path
  lockOn,    \* whose lock file each agent holds a lock on
  recycled,  \* dead agents whose process id a stranger has
  crossed    \* history: whose start overlapped another, or an agent leaving

filesVars == <<pc, runFile, said, lockFile, lockOn, recycled, crossed>>

Taking == {"creating", "locking", "writing", "reading", "removing", "creatingAgain"}
Leaving == {"leaving", "unlocked", "lockRemoved"}
Over == {"refused", "gone", "killed"}

FilesTypeOK ==
  /\ pc \in [Agent -> {"unborn", "claimed"} \cup Taking \cup Leaving \cup Over]
  /\ runFile \in Agent \cup {NoAgent}
  /\ said \in [Agent -> {"nothing", "locked", "unlocked"}]
  /\ lockFile \in Agent \cup {NoAgent}
  /\ lockOn \in [Agent -> Agent \cup {NoAgent}]
  /\ \A a \in Agent : lockOn[a] # NoAgent => pc[a] \in {"writing", "claimed", "leaving"}
  /\ recycled \subseteq Agent
  /\ crossed \subseteq Agent

FilesInit ==
  /\ pc = [a \in Agent |-> "unborn"]
  /\ runFile = NoAgent
  /\ said = [a \in Agent |-> "nothing"]
  /\ lockFile = NoAgent
  /\ lockOn = [a \in Agent |-> NoAgent]
  /\ recycled = {}
  /\ crossed = {}

Lives(a) == pc[a] \notin {"unborn"} \cup Over

-----------------------------------------------------------------------------
(* What can be asked of the files.  A definition named Wrong... is the one *)
(* below it as a slip would have written it.                               *)

(* run_file_is_still_held: held, or not to be told.                        *)
RunFileIsStillHeld == lockFile = NoAgent \/ \E a \in Agent : lockOn[a] = lockFile

WrongRunning(pid) == FALSE
Running(pid) == Lives(pid) \/ pid \in recycled

(* holder, and Coilbox's own already_relaying.                             *)
WrongHolds(a) == runFile = a /\ said[a] # "nothing" /\ Running(a)
Holds(a) ==
  /\ runFile = a
  /\ said[a] # "nothing"
  /\ Running(a)
  /\ said[a] = "locked" => RunFileIsStillHeld

Move(a, to) == pc' = [pc EXCEPT ![a] = to]

Starting == {a \in Agent : pc[a] \in Taking}

-----------------------------------------------------------------------------
(* Claim::take.                                                            *)

(* Coilbox starts an agent when it finds none.                             *)
Spawn(a) ==
  /\ pc[a] = "unborn"
  /\ ~ \E b \in Agent : Holds(b)
  /\ Move(a, "creating")
  /\ crossed' = IF \E b \in Agent : pc[b] \in Taking \cup Leaving
                THEN crossed \cup Starting \cup {a} ELSE crossed
  /\ UNCHANGED <<runFile, said, lockFile, lockOn, recycled>>

(* The exclusive create: the file is there, and empty, before it is        *)
(* written.                                                                *)
Create(a) ==
  /\ pc[a] \in {"creating", "creatingAgain"}
  /\ runFile = NoAgent
  /\ runFile' = a
  /\ Move(a, "locking")
  /\ UNCHANGED <<said, lockFile, lockOn, recycled, crossed>>

AlreadyThere(a) ==
  /\ runFile # NoAgent
  /\ \/ pc[a] = "creating" /\ Move(a, "reading")
     \/ pc[a] = "creatingAgain" /\ Move(a, "refused")
  /\ UNCHANGED <<runFile, said, lockFile, lockOn, recycled, crossed>>

(* The lock file is opened, or made; locking it may be refused.            *)
HoldTheLock(a) ==
  /\ pc[a] = "locking"
  /\ lockFile' = IF lockFile = NoAgent THEN a ELSE lockFile
  /\ \E on \in {lockFile', NoAgent} : lockOn' = [lockOn EXCEPT ![a] = on]
  /\ Move(a, "writing")
  /\ UNCHANGED <<runFile, said, recycled, crossed>>

WrongWrite(a) ==
  /\ pc[a] = "writing"
  /\ said' = [said EXCEPT ![a] = "locked"]
  /\ Move(a, "claimed")
  /\ UNCHANGED <<runFile, lockFile, lockOn, recycled, crossed>>

Write(a) ==
  /\ pc[a] = "writing"
  /\ said' = [said EXCEPT ![a] = IF lockOn[a] = NoAgent THEN "unlocked" ELSE "locked"]
  /\ Move(a, "claimed")
  /\ UNCHANGED <<runFile, lockFile, lockOn, recycled, crossed>>

Read(a) ==
  /\ pc[a] = "reading"
  /\ Move(a, IF \E b \in Agent : Holds(b) THEN "refused" ELSE "removing")
  /\ UNCHANGED <<runFile, said, lockFile, lockOn, recycled, crossed>>

(* Whatever file is there by now; if there is none, that is an error.      *)
RemoveStale(a) ==
  /\ pc[a] = "removing"
  /\ Move(a, IF runFile = NoAgent THEN "refused" ELSE "creatingAgain")
  /\ runFile' = NoAgent
  /\ UNCHANGED <<said, lockFile, lockOn, recycled, crossed>>

-----------------------------------------------------------------------------
(* Drop for Claim: if the file is still ours, the lock is let go, then the *)
(* lock file and the run file are removed.                                 *)

Leave(a) ==
  /\ pc[a] = "claimed"
  /\ IF Holds(a)
     THEN /\ Move(a, "leaving")
          /\ crossed' = crossed \cup Starting
          /\ UNCHANGED lockOn
     ELSE /\ Move(a, "gone")
          /\ lockOn' = [lockOn EXCEPT ![a] = NoAgent]
          /\ UNCHANGED crossed
  /\ UNCHANGED <<runFile, said, lockFile, recycled>>

LetGoOfLock(a) ==
  /\ pc[a] = "leaving"
  /\ lockOn' = [lockOn EXCEPT ![a] = NoAgent]
  /\ Move(a, "unlocked")
  /\ UNCHANGED <<runFile, said, lockFile, recycled, crossed>>

RemoveLock(a) ==
  /\ pc[a] = "unlocked"
  /\ lockFile' = NoAgent
  /\ Move(a, "lockRemoved")
  /\ UNCHANGED <<runFile, said, lockOn, recycled, crossed>>

RemoveRun(a) ==
  /\ pc[a] = "lockRemoved"
  /\ runFile' = NoAgent
  /\ Move(a, "gone")
  /\ UNCHANGED <<said, lockFile, lockOn, recycled, crossed>>

-----------------------------------------------------------------------------
(* The operating system.                                                   *)

Kill(a) ==
  /\ Lives(a)
  /\ Move(a, "killed")
  /\ lockOn' = [lockOn EXCEPT ![a] = NoAgent]
  /\ UNCHANGED <<runFile, said, lockFile, recycled, crossed>>

Recycle(a) ==
  /\ pc[a] \in Over
  /\ a \notin recycled
  /\ recycled' = recycled \cup {a}
  /\ UNCHANGED <<pc, runFile, said, lockFile, lockOn, crossed>>

Release(a) ==
  /\ a \in recycled
  /\ recycled' = recycled \ {a}
  /\ UNCHANGED <<pc, runFile, said, lockFile, lockOn, crossed>>

Step(a) ==
  \/ Create(a) \/ AlreadyThere(a) \/ HoldTheLock(a) \/ Write(a) \/ Read(a)
  \/ RemoveStale(a) \/ Leave(a) \/ LetGoOfLock(a) \/ RemoveLock(a) \/ RemoveRun(a)

FilesNext == \E a \in Agent : Spawn(a) \/ Step(a) \/ Kill(a) \/ Recycle(a) \/ Release(a)

FilesSpec == FilesInit /\ [][FilesNext]_filesVars

-----------------------------------------------------------------------------
(* Properties.                                                             *)

Claimed(a) == pc[a] = "claimed"

(* Two agents relay at once only when the start of one of them overlapped  *)
(* another start or an agent leaving: across kills at any step, files left *)
(* half written, locks refused, process ids handed on, and races among     *)
(* others that are over.                                                   *)
AloneUnlessCrossed ==
  \A a, b \in Agent \ crossed : Claimed(a) /\ Claimed(b) => a = b

(* A running agent can be found, the run file is its own and says so,      *)
(* unless its own start was overlapped: nobody else's race, later start or *)
(* way out takes the file from it.                                         *)
FoundUnlessCrossed == \A a \in Agent \ crossed : Claimed(a) => Holds(a)

(* An agent Coilbox saw no reason not to start, and whose start overlapped *)
(* nothing, is refused only when a stranger has come by the dead agent's   *)
(* process id since, and the lock cannot tell them apart: none was taken,  *)
(* none is left, or it is another agent's, which is relaying.              *)
RefusalExplained ==
  [][\A a \in Agent \ crossed : pc[a] # "refused" /\ pc'[a] = "refused" =>
       \E b \in recycled :
         /\ runFile = b
         /\ \/ said[b] = "unlocked"
            \/ lockFile = NoAgent
            \/ \E c \in crossed : Claimed(c) /\ lockOn[c] = lockFile]_filesVars

-----------------------------------------------------------------------------
(* What comments promise without that reserve, which the code does not     *)
(* keep.                                                                   *)

(* Of two agents racing, exactly one gets the file.                        *)
OneClaim == \A a, b \in Agent : Claimed(a) /\ Claimed(b) => a = b

(* The file's life is the process's life.                                  *)
Findable == \A a \in Agent : Claimed(a) => Holds(a)
=============================================================================
