------------------------------- MODULE Logger -------------------------------
(***************************************************************************)
(* LogManager: any thread may log an entry, which is pushed on a queue; a  *)
(* writer thread takes entries from the queue and appends each to the file *)
(* of its category.  The global logger is created first in start_server    *)
(* and destroyed after main has returned, when the server has joined all   *)
(* its threads: nobody logs any more by then.                              *)
(*                                                                         *)
(* An entry is a value with a category; its text, level and time are left  *)
(* out.  The writer's loop condition reads _running and, if that is false, *)
(* _logQueue.empty() without the mutex: the queue has no other user then.  *)
(***************************************************************************)
EXTENDS Naturals, Sequences

CONSTANTS NetworkEntries,   \* the entries of category NETWORK
          GameInfoEntries   \* the entries of category GAMEINFO

ASSUME CategoriesAssumption == NetworkEntries \cap GameInfoEntries = {}

Entries == NetworkEntries \cup GameInfoEntries
Categories == {"NETWORK", "GAMEINFO"}
EntriesOf(category) ==
    IF category = "NETWORK" THEN NetworkEntries ELSE GameInfoEntries
CategoryOf(e) == IF e \in NetworkEntries THEN "NETWORK" ELSE "GAMEINFO"

VARIABLES
    mainPc,                 \* construction, use and destruction
    running,                \* _running
    isOpen,                 \* which of the two files are open
    logQueue,               \* _logQueue
    writerPc,               \* where the writer thread is
    entry,                  \* the entries in its hands, at most one
    file,                   \* what has been written to each file
    logged                  \* history: what was logged, by category

vars == <<mainPc, running, isOpen, logQueue, writerPc, entry, file, logged>>

TypeOK ==
    /\ mainPc \in {"construct", "up", "join", "close", "destroyed"}
    /\ running \in BOOLEAN
    /\ isOpen \in [Categories -> BOOLEAN]
    /\ logQueue \in Seq(Entries)
    /\ writerPc \in {"none", "check", "pop", "write", "done"}
    /\ entry \in Seq(Entries)
    /\ file \in [Categories -> Seq(Entries)]
    /\ \A c \in Categories : file[c] \in Seq(EntriesOf(c))
    /\ logged \in [Categories -> Seq(Entries)]

Init ==
    /\ mainPc = "construct"
    /\ running = FALSE
    /\ isOpen = [c \in Categories |-> FALSE]
    /\ logQueue = <<>>
    /\ writerPc = "none"
    /\ entry = <<>>
    /\ file = [c \in Categories |-> <<>>]
    /\ logged = [c \in Categories |-> <<>>]

-----------------------------------------------------------------------------
(* The constructor.                                                        *)

Starts ==
    /\ mainPc = "construct"
    /\ isOpen' = [c \in Categories |-> TRUE]
    /\ running' = TRUE
    /\ writerPc' = "check"
    /\ mainPc' = "up"
    /\ UNCHANGED <<logQueue, entry, file, logged>>

\* A directory cannot be made, or one of the files not opened: there is a
\* logger, but no writer.
InitializationFails ==
    /\ mainPc = "construct"
    /\ isOpen' \in [Categories -> BOOLEAN]
    /\ \E c \in Categories : ~isOpen'[c]
    /\ mainPc' = "up"
    /\ UNCHANGED <<running, logQueue, writerPc, entry, file, logged>>

-----------------------------------------------------------------------------
(* log, from any thread                                                    *)

\* Mutation: an entry is put in front of those that wait.
LogInFront(e) ==
    /\ mainPc = "up"
    /\ \A i \in DOMAIN logged[CategoryOf(e)] : logged[CategoryOf(e)][i] # e
    /\ logQueue' = <<e>> \o logQueue
    /\ logged' = [logged EXCEPT ![CategoryOf(e)] = Append(@, e)]
    /\ UNCHANGED <<mainPc, running, isOpen, writerPc, entry, file>>

Log(e) ==
    /\ mainPc = "up"
    /\ \A i \in DOMAIN logged[CategoryOf(e)] : logged[CategoryOf(e)][i] # e
    /\ logQueue' = Append(logQueue, e)
    /\ logged' = [logged EXCEPT ![CategoryOf(e)] = Append(@, e)]
    /\ UNCHANGED <<mainPc, running, isOpen, writerPc, entry, file>>

-----------------------------------------------------------------------------
(* writerThreadLoop                                                        *)

\* Mutation: the loop ends as soon as the logger is to be destroyed.
WriterStopsAtOnce ==
    /\ writerPc = "check"
    /\ writerPc' = IF running THEN "pop" ELSE "done"
    /\ UNCHANGED <<mainPc, running, isOpen, logQueue, entry, file, logged>>

WriterChecks ==
    /\ writerPc = "check"
    /\ writerPc' = IF running \/ logQueue # <<>> THEN "pop" ELSE "done"
    /\ UNCHANGED <<mainPc, running, isOpen, logQueue, entry, file, logged>>

WriterPops ==
    /\ writerPc = "pop"
    /\ logQueue # <<>>
    /\ entry' = <<Head(logQueue)>>
    /\ logQueue' = Tail(logQueue)
    /\ writerPc' = "write"
    /\ UNCHANGED <<mainPc, running, isOpen, file, logged>>

\* It sleeps for 10 ms.
WriterFindsNothing ==
    /\ writerPc = "pop"
    /\ logQueue = <<>>
    /\ writerPc' = "check"
    /\ UNCHANGED <<mainPc, running, isOpen, logQueue, entry, file, logged>>

\* Mutation: every entry goes to the network log.
WritesToNetworkLog ==
    /\ writerPc = "write"
    /\ file' = [file EXCEPT !["NETWORK"] = @ \o entry]
    /\ entry' = <<>>
    /\ writerPc' = "check"
    /\ UNCHANGED <<mainPc, running, isOpen, logQueue, logged>>

\* An entry whose file is not open is dropped.
WriterWrites ==
    /\ writerPc = "write"
    /\ LET c == CategoryOf(Head(entry))
       IN  file' = IF isOpen[c] THEN [file EXCEPT ![c] = @ \o entry] ELSE file
    /\ entry' = <<>>
    /\ writerPc' = "check"
    /\ UNCHANGED <<mainPc, running, isOpen, logQueue, logged>>

WriterStep ==
    WriterChecks \/ WriterPops \/ WriterFindsNothing \/ WriterWrites

-----------------------------------------------------------------------------
(* The destructor.                                                         *)

\* Mutation: _running is not reset before the writer is joined.
DestructionKeepsRunning ==
    /\ mainPc = "up"
    /\ mainPc' = IF running THEN "join" ELSE "close"
    /\ UNCHANGED <<running, isOpen, logQueue, writerPc, entry, file, logged>>

DestructionBegins ==
    /\ mainPc = "up"
    /\ running' = FALSE
    /\ mainPc' = IF running THEN "join" ELSE "close"
    /\ UNCHANGED <<isOpen, logQueue, writerPc, entry, file, logged>>

WriterJoined ==
    /\ mainPc = "join"
    /\ writerPc = "done"
    /\ mainPc' = "close"
    /\ UNCHANGED <<running, isOpen, logQueue, writerPc, entry, file, logged>>

FilesClosed ==
    /\ mainPc = "close"
    /\ isOpen' = [c \in Categories |-> FALSE]
    /\ mainPc' = "destroyed"
    /\ UNCHANGED <<running, logQueue, writerPc, entry, file, logged>>

Terminated == mainPc = "destroyed" /\ UNCHANGED vars

Next ==
    \/ Starts \/ InitializationFails
    \/ \E e \in Entries : Log(e)
    \/ WriterStep
    \/ DestructionBegins \/ WriterJoined \/ FilesClosed
    \/ Terminated

Spec == Init /\ [][Next]_vars

(* The writer is scheduled, and the destructor, once it runs, goes on; the *)
(* server need not end.                                                    *)
FairSpec == Spec /\ WF_vars(WriterStep) /\ WF_vars(WriterJoined \/ FilesClosed)

-----------------------------------------------------------------------------
Occurs(e, seq) == \E i \in 1..Len(seq) : seq[i] = e

(* When the logger is gone, every entry that was logged is in the file of  *)
(* its category: the writer drains the queue before it ends, and the files *)
(* are closed after that (logger.cpp:31-45, 139).  Unless the logger could *)
(* not be initialized: then nothing is ever written.                       *)
NothingLoggedIsLost ==
    mainPc = "destroyed" =>
        \/ writerPc = "none"
        \/ \A c \in Categories, e \in Entries :
               Occurs(e, logged[c]) => Occurs(e, file[c])

NetworkLog == INSTANCE FifoChannel
                  WITH Items <- NetworkEntries,
                       accepted <- logged["NETWORK"],
                       delivered <- file["NETWORK"]

GameInfoLog == INSTANCE FifoChannel
                   WITH Items <- GameInfoEntries,
                        accepted <- logged["GAMEINFO"],
                        delivered <- file["GAMEINFO"]

(* Each file gets the entries of its category, and only those, in the      *)
(* order in which they were logged, whichever threads logged them          *)
(* (logger.cpp:122-126, 143-164).                                          *)
FilesAreFifoChannels == NetworkLog!Spec /\ GameInfoLog!Spec

(* An entry that was logged is written, if there is a writer, without      *)
(* waiting for the end of the server (logger.cpp:138-170).                 *)
EntriesAreWritten ==
    \A e \in Entries :
        Occurs(e, logQueue) /\ writerPc # "none"
            ~> Occurs(e, file[CategoryOf(e)])

(* The destructor does not wait for ever for the writer (logger.cpp:33-35).*)
DestructionCompletes == (mainPc = "join") ~> (mainPc = "destroyed")
=============================================================================
