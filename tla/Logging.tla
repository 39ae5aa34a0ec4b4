------------------------------ MODULE Logging ------------------------------
(***************************************************************************)
(* The log of a debug build (log.c, the POSIX branch): processes that run  *)
(* in one directory, as the example client and server do, each with the    *)
(* static FILE* of get_logFile.                                            *)
(*                                                                         *)
(* The first message creates the directory and the file, which is named    *)
(* after the second in which the process looks at the clock.  get_logFile  *)
(* asserts that this worked, and a failing assertion is itself a message.  *)
(* GAVEN_DEBUG_BREAK, that would end the process, comes after the message. *)
(*                                                                         *)
(* Between any two system calls of a process the others run, the clock     *)
(* ticks, or the process is killed, which is how the examples end.  All    *)
(* messages are of one length: a file is a sequence of them.               *)
(***************************************************************************)
EXTENDS Integers, SequencesExt

CONSTANTS
    Process,
    MaxLogged,      \* bound: messages of a process
    MaxSecond,      \* bound: the clock
    MaxDepth        \* bound: assertions that nest before the stack is full

ASSUME BoundAssumption == MaxLogged \in Nat /\ MaxSecond \in Nat \ {0} /\ MaxDepth \in Nat

VARIABLES
    second,     \* time() (external)
    folder,     \* what "logs" is (external)
    disk,       \* the files in it, by the second in their names (external)
    buffer,     \* per process: the second in get_logFile's name for a file, 0 for none
    log,        \* the file get_logFile's static pointer is of, 0 for NULL
    closed,     \* the stream has been closed
    offset,     \* the position in it
    pc, goal, depth,    \* where a process is, why it called get_logFile, assertions pending
    stage,      \* how far destroy_application is
    (* History: *)
    written,    \* messages whose calls have returned
    refused,    \* how often the file system has refused a process a folder or a file
    asserted    \* a condition of the client's own has failed

outside == <<second, folder, disk>>
stream  == <<buffer, log, closed, offset>>
history == <<written, refused, asserted>>
process == <<stream, pc, goal, depth, stage, history>>
vars    == <<outside, process>>

SlipTeardown ==                     \* destroy_logging first
    <<"running", "closing", "detaching", "destroyed">>

(* destroy_application: destroy_layer_registry calls the OnDettach         *)
(* callbacks, which may log, and destroy_logging comes after it.           *)
Teardown == <<"running", "detaching", "closing", "destroyed">>

Hole == [by |-> "nobody", is |-> "hole", n |-> 0]
Cell == [by: Process, is: {"message", "assertion"}, n: Nat] \cup {Hole}
Ended == {"trapped", "overflown", "killed", "exited", "fault"}

TypeOK ==
    /\ second \in 1..MaxSecond /\ folder \in {"absent", "folder", "file"}
    /\ DOMAIN disk = 1..MaxSecond
    /\ \A s \in 1..MaxSecond : \E size \in 0..MaxLogged + 1 : disk[s] \in [1..size -> Cell]
    /\ buffer \in [Process -> 0..MaxSecond] /\ log \in [Process -> 0..MaxSecond]
    /\ closed \in [Process -> BOOLEAN] /\ offset \in [Process -> Nat]
    /\ pc \in [Process -> {"client", "get_logFile", "create_folder", "created",
                           "gaven_get_time", "fopen", "got"} \cup Ended]
    /\ goal \in [Process -> {"message", "close"}] /\ depth \in [Process -> 0..MaxDepth]
    /\ stage \in [Process -> ToSet(Teardown)]
    /\ written \in [Process -> Seq(Cell)] /\ refused \in [Process -> Nat]
    /\ asserted \in [Process -> BOOLEAN]

Init ==
    /\ second = 1 /\ folder \in {"absent", "folder", "file"}
    /\ disk = [s \in 1..MaxSecond |-> << >>]
    /\ buffer = [p \in Process |-> 0] /\ log = [p \in Process |-> 0]
    /\ closed = [p \in Process |-> FALSE] /\ offset = [p \in Process |-> 0]
    /\ pc = [p \in Process |-> "client"] /\ goal = [p \in Process |-> "message"]
    /\ depth = [p \in Process |-> 0] /\ stage = [p \in Process |-> "running"]
    /\ written = [p \in Process |-> << >>] /\ refused = [p \in Process |-> 0]
    /\ asserted = [p \in Process |-> FALSE]

Goto(p, place) == pc' = [pc EXCEPT ![p] = place]

-----------------------------------------------------------------------------
(* The client: main, callbacks, and what destroy_application calls.        *)

ClientRuns(p) == pc[p] = "client" /\ stage[p] # "closing"

(* GAVEN_WARN and GAVEN_INFO.                                              *)
GAVEN_WARN(p) ==
    /\ ClientRuns(p) /\ Len(written[p]) < MaxLogged
    /\ Goto(p, "get_logFile") /\ goal' = [goal EXCEPT ![p] = "message"]
    /\ UNCHANGED <<outside, stream, depth, stage, history>>

SlipAssertMessage(p) ==             \* GAVEN_DEBUG_BREAK first
    /\ Goto(p, "trapped") /\ UNCHANGED <<goal, depth>>

(* gaven_assert_message: its log_to_file calls get_logFile, once more if   *)
(* the assertion is one of get_logFile's.                                  *)
gaven_assert_message(p) ==
    /\ goal' = [goal EXCEPT ![p] = "message"]
    /\ IF depth[p] < MaxDepth
       THEN Goto(p, "get_logFile") /\ depth' = [depth EXCEPT ![p] = @ + 1]
       ELSE Goto(p, "overflown") /\ UNCHANGED depth

(* A GAVEN_ASSERT of the client, or of the library's other files, fails.   *)
GAVEN_ASSERT(p) ==
    /\ ClientRuns(p) /\ Len(written[p]) < MaxLogged
    /\ gaven_assert_message(p) /\ asserted' = [asserted EXCEPT ![p] = TRUE]
    /\ UNCHANGED <<outside, stream, stage, written, refused>>

(* destroy_application goes from one of its calls to the next.             *)
destroy_application(p) ==
    /\ pc[p] = "client" /\ stage[p] # "destroyed" /\ (stage[p] = "closing" => closed[p])
    /\ \E x \in 1..3 : stage[p] = Teardown[x] /\ stage' = [stage EXCEPT ![p] = Teardown[x + 1]]
    /\ UNCHANGED <<outside, stream, pc, goal, depth, history>>

destroy_logging(p) ==
    /\ pc[p] = "client" /\ stage[p] = "closing" /\ ~closed[p]
    /\ Goto(p, "get_logFile") /\ goal' = [goal EXCEPT ![p] = "close"]
    /\ UNCHANGED <<outside, stream, depth, stage, history>>

(* main returns.                                                           *)
Return(p) ==
    /\ pc[p] = "client" /\ stage[p] \in {"running", "destroyed"} /\ Goto(p, "exited")
    /\ UNCHANGED <<outside, stream, goal, depth, stage, history>>

-----------------------------------------------------------------------------
(* get_logFile.                                                            *)

check_folder_exists == folder = "folder"

get_logFile(p) ==
    /\ pc[p] = "get_logFile"
    /\ Goto(p, IF log[p] # 0 THEN "got" ELSE IF check_folder_exists THEN "gaven_get_time"
               ELSE "create_folder")
    /\ UNCHANGED <<outside, stream, goal, depth, stage, history>>

Refuse(p) == refused' = [refused EXCEPT ![p] = @ + 1]

SlipCreateFolder(p) ==              \* asserts that mkdir returns 0
    /\ pc[p] = "create_folder"
    /\ \/ /\ folder # "absent" /\ gaven_assert_message(p)
          /\ UNCHANGED <<folder, refused>>
       \/ /\ folder = "absent" /\ folder' = "folder"
          /\ Goto(p, "created") /\ UNCHANGED <<refused, goal, depth>>
    /\ UNCHANGED <<second, disk, stream, stage, written, asserted>>

(* mkdir finds the directory another process has made meanwhile, or makes  *)
(* it, or fails; its result is not looked at.                              *)
create_folder(p) ==
    /\ pc[p] = "create_folder" /\ Goto(p, "created")
    /\ \/ folder = "folder" /\ UNCHANGED <<folder, refused>>
       \/ folder = "absent" /\ folder' = "folder" /\ UNCHANGED refused
       \/ folder # "folder" /\ Refuse(p) /\ UNCHANGED folder
    /\ UNCHANGED <<second, disk, stream, goal, depth, stage, written, asserted>>

(* The assertion that the directory is there.                              *)
AssertFolder(p) ==
    /\ pc[p] = "created"
    /\ IF check_folder_exists THEN Goto(p, "gaven_get_time") /\ UNCHANGED <<goal, depth>>
       ELSE gaven_assert_message(p)
    /\ UNCHANGED <<outside, stream, stage, history>>

(* The name of the file.                                                   *)
gaven_get_time(p) ==
    /\ pc[p] = "gaven_get_time" /\ Goto(p, "fopen")
    /\ buffer' = [buffer EXCEPT ![p] = second]
    /\ UNCHANGED <<outside, log, closed, offset, goal, depth, stage, history>>

(* fopen with "w" empties the file if there is one of that name.           *)
fopen(p) ==
    /\ pc[p] = "fopen" /\ Goto(p, "got")
    /\ log' = [log EXCEPT ![p] = buffer[p]] /\ disk' = [disk EXCEPT ![buffer[p]] = << >>]
    /\ UNCHANGED <<second, folder, buffer, closed, offset, goal, depth, stage, history>>

fopenFails(p) ==
    /\ pc[p] = "fopen" /\ Refuse(p) /\ gaven_assert_message(p)
    /\ UNCHANGED <<outside, stream, stage, written, asserted>>

-----------------------------------------------------------------------------
(* log_to_file, and fclose in destroy_logging.                             *)

SlipPut(file, at, cell) ==          \* no fflush
    file

(* A file with a cell written at some position of it.  What lies between   *)
(* its end and that position, if another process has emptied it, is a hole.*)
Put(file, at, cell) ==
    [x \in 1..IF Len(file) > at THEN Len(file) ELSE at |->
        IF x = at THEN cell ELSE IF x <= Len(file) THEN file[x] ELSE Hole]

SlipLogToFile(p) ==                 \* the assertion's caller goes on: no GAVEN_DEBUG_BREAK
    /\ pc[p] = "got" /\ goal[p] = "message" /\ ~closed[p]
    /\ LET cell == [by |-> p, is |-> IF depth[p] > 0 THEN "assertion" ELSE "message",
                    n |-> Len(written[p]) + 1]
       IN  /\ disk' = [disk EXCEPT ![log[p]] = Put(@, offset[p] + 1, cell)]
           /\ written' = [written EXCEPT ![p] = Append(@, cell)]
    /\ offset' = [offset EXCEPT ![p] = @ + 1]
    /\ depth' = [depth EXCEPT ![p] = IF @ > 0 THEN @ - 1 ELSE 0]
    /\ Goto(p, IF depth[p] <= (IF asserted[p] THEN 1 ELSE 0) THEN "client" ELSE "got")
    /\ UNCHANGED <<second, folder, buffer, log, closed, goal, stage, refused, asserted>>

(* fprintf and fflush, and the return of the message's call; that of an    *)
(* assertion is followed by GAVEN_DEBUG_BREAK.                             *)
log_to_file(p) ==
    /\ pc[p] = "got" /\ goal[p] = "message" /\ ~closed[p]
    /\ LET cell == [by |-> p, is |-> IF depth[p] > 0 THEN "assertion" ELSE "message",
                    n |-> Len(written[p]) + 1]
       IN  /\ disk' = [disk EXCEPT ![log[p]] = Put(@, offset[p] + 1, cell)]
           /\ written' = [written EXCEPT ![p] = Append(@, cell)]
    /\ offset' = [offset EXCEPT ![p] = @ + 1]
    /\ Goto(p, IF depth[p] > 0 THEN "trapped" ELSE "client")
    /\ UNCHANGED <<second, folder, buffer, log, closed, goal, depth, stage, refused, asserted>>

fclose(p) ==
    /\ pc[p] = "got" /\ goal[p] = "close" /\ ~closed[p]
    /\ closed' = [closed EXCEPT ![p] = TRUE] /\ Goto(p, "client")
    /\ UNCHANGED <<outside, buffer, log, offset, goal, depth, stage, history>>

(* The static pointer still points to the stream that was closed.          *)
UseClosed(p) ==
    /\ pc[p] = "got" /\ closed[p] /\ Goto(p, "fault")
    /\ UNCHANGED <<outside, stream, goal, depth, stage, history>>

-----------------------------------------------------------------------------

Kill(p) ==
    /\ pc[p] \notin Ended /\ Goto(p, "killed")
    /\ UNCHANGED <<outside, stream, goal, depth, stage, history>>

Tick == second < MaxSecond /\ second' = second + 1 /\ UNCHANGED <<folder, disk, process>>

Step(p) ==
    \/ get_logFile(p) \/ create_folder(p) \/ AssertFolder(p) \/ gaven_get_time(p)
    \/ fopen(p) \/ fopenFails(p) \/ log_to_file(p) \/ fclose(p) \/ UseClosed(p)

Client(p) ==
    \/ GAVEN_WARN(p) \/ GAVEN_ASSERT(p) \/ destroy_application(p) \/ destroy_logging(p)
    \/ Return(p)

Next == Tick \/ \E p \in Process : Client(p) \/ Step(p) \/ Kill(p)

Spec == Init /\ [][Next]_vars

-----------------------------------------------------------------------------
(* Properties.                                                             *)

(* Processes that have opened the same file.                               *)
Sharers(p) == {q \in Process : log[q] = log[p]}

(* Whatever ends a process, and in whatever order processes start, the     *)
(* file of one that has it to itself holds exactly the messages whose      *)
(* calls returned, in order.  It loses messages only to a process that     *)
(* looked at the clock in the same second, however much later it opened    *)
(* the file.                                                               *)
MessagesKept ==
    \A p \in Process : log[p] # 0 /\ Sharers(p) = {p} => disk[log[p]] = written[p]

(* When an assertion ends the process, the reason is the last thing in its *)
(* log, though it was logged from inside get_logFile or before any file    *)
(* was open.                                                               *)
ReasonOnDisk ==
    \A p \in Process : pc[p] = "trapped" =>
        /\ log[p] # 0
        /\ Sharers(p) = {p} => disk[log[p]] # << >> /\ Last(disk[log[p]]).is = "assertion"

(* Logging itself asserts only where the file system has refused the       *)
(* process a directory or a file, and nests one assertion for each refusal *)
(* until the stack is full; when two processes create the directory at the *)
(* same time, both go on.                                                  *)
AssertsIfRefused ==
    \A p \in Process :
        depth[p] + (IF pc[p] = "overflown" THEN 1 ELSE 0)
            <= refused[p] + (IF asserted[p] THEN 1 ELSE 0)

(* The library does not log to a stream it has closed: only a client that  *)
(* logs after destroy_application does.                                    *)
ClosedLast == \A p \in Process : pc[p] = "fault" => stage[p] = "destroyed"
=============================================================================
