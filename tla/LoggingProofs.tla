--------------------------- MODULE LoggingProofs ---------------------------
(***************************************************************************)
(* For any number of processes, messages, seconds and nested assertions:   *)
(* what the log files hold, what ends a process that asserts, and that the *)
(* library does not use the stream it closed.                              *)
(***************************************************************************)
EXTENDS Logging, TLAPS

(* TypeOK with files as sequences of any length.                           *)
Typed ==
    /\ second \in 1..MaxSecond /\ folder \in {"absent", "folder", "file"}
    /\ disk \in [1..MaxSecond -> Seq(Cell)]
    /\ buffer \in [Process -> 0..MaxSecond] /\ log \in [Process -> 0..MaxSecond]
    /\ closed \in [Process -> BOOLEAN] /\ offset \in [Process -> Nat]
    /\ pc \in [Process -> {"client", "get_logFile", "create_folder", "created",
                           "gaven_get_time", "fopen", "got"} \cup Ended]
    /\ goal \in [Process -> {"message", "close"}] /\ depth \in [Process -> 0..MaxDepth]
    /\ stage \in [Process -> {"running", "closing", "detaching", "destroyed"}]
    /\ written \in [Process -> Seq(Cell)] /\ refused \in [Process -> Nat]
    /\ asserted \in [Process -> BOOLEAN]

(* Places inside get_logFile, or past it.                                  *)
Working == {"get_logFile", "create_folder", "created", "gaven_get_time", "fopen", "got"}

(* Where a process is tells whether it has a file, and without one it has  *)
(* written nothing.  Its last message is an assertion if that ended it.    *)
Placed(p) ==
    /\ pc[p] \in {"create_folder", "created", "gaven_get_time", "fopen"} => log[p] = 0
    /\ pc[p] = "fopen" => buffer[p] # 0
    /\ pc[p] = "got" => log[p] # 0
    /\ log[p] = 0 => written[p] = << >>
    /\ offset[p] = Len(written[p])
    /\ pc[p] = "trapped" =>
        log[p] # 0 /\ written[p] # << >> /\ Last(written[p]).is = "assertion"
    /\ Len(written[p]) <= MaxLogged + 1
    /\ goal[p] = "message" /\ pc[p] \in Working =>
        Len(written[p]) < MaxLogged \/ written[p] = << >>

(* The file of a process that has it to itself.                            *)
Kept(p) == log[p] # 0 /\ Sharers(p) = {p} => disk[log[p]] = written[p]

One(condition) == IF condition THEN 1 ELSE 0

(* Each pending assertion is the client's own or has its refusal, and one  *)
(* more refusal is there where the next assertion fails.                   *)
Counted(p) ==
    /\ pc[p] = "client" => depth[p] = 0
    /\ goal[p] = "close" => depth[p] = 0
    /\ depth[p] + One(pc[p] = "overflown") <= refused[p] + One(asserted[p])
    /\ pc[p] = "created" /\ folder # "folder" =>
        depth[p] + 1 <= refused[p] + One(asserted[p])

(* The stream is closed in the last of destroy_application's calls.        *)
Closing(p) ==
    /\ closed[p] => stage[p] = "destroyed"
                    \/ (stage[p] = "closing" /\ pc[p] \notin Working \cup {"fault"})
    /\ pc[p] = "fault" => stage[p] = "destroyed"
    /\ goal[p] = "close" /\ pc[p] \in Working => stage[p] = "closing"

AllPlaced  == \A p \in Process : Placed(p)
AllKept    == \A p \in Process : Kept(p)
AllCounted == \A p \in Process : Counted(p)
AllClosing == \A p \in Process : Closing(p)

-----------------------------------------------------------------------------
(* Types.                                                                  *)

(* What Put makes of a file is a file, at least as long as the position    *)
(* that is written and no longer than that or the file.                    *)
LEMMA PutIsFile ==
    ASSUME NEW file \in Seq(Cell), NEW at \in Nat, at > 0, NEW cell \in Cell
    PROVE  /\ Put(file, at, cell) \in Seq(Cell)
           /\ Len(Put(file, at, cell)) = IF Len(file) > at THEN Len(file) ELSE at
  <1> DEFINE n == IF Len(file) > at THEN Len(file) ELSE at
  <1>1. n \in Nat
    OBVIOUS
  <1>2. Hole \in Cell
    BY DEF Cell
  <1>3. \A x \in 1..n : x <= Len(file) => file[x] \in Cell
    OBVIOUS
  <1>4. Put(file, at, cell) \in [1..n -> Cell]
    BY <1>2, <1>3 DEF Put
  <1>5. QED
    BY <1>1, <1>4

(* Put behind the end of a file appends to it.                             *)
LEMMA PutAppends ==
    ASSUME NEW file \in Seq(Cell), NEW cell \in Cell
    PROVE  Put(file, Len(file) + 1, cell) = Append(file, cell)
  <1> DEFINE n == Len(file) + 1
  <1>1. Len(file) \in Nat /\ n \in Nat
    OBVIOUS
  <1>2. Put(file, n, cell) = [x \in 1..n |-> IF x = n THEN cell ELSE file[x]]
    BY <1>1 DEF Put
  <1>3. Append(file, cell) \in Seq(Cell) /\ Len(Append(file, cell)) = n
    OBVIOUS
  <1>4. \A x \in 1..n : Append(file, cell)[x] = IF x = n THEN cell ELSE file[x]
    OBVIOUS
  <1>5. Put(file, n, cell) \in Seq(Cell) /\ Len(Put(file, n, cell)) = n
    BY <1>1, PutIsFile
  <1>6. \A x \in 1..n : Put(file, n, cell)[x] = Append(file, cell)[x]
    BY <1>2, <1>4
  <1>7. QED
    BY <1>3, <1>5, <1>6

LEMMA TypedInit == Init => Typed
  BY BoundAssumption DEF Init, Typed, Ended

(* Every call of gaven_assert_message goes to the same places.             *)
LEMMA AssertTyped ==
    ASSUME Typed, NEW p \in Process, gaven_assert_message(p)
    PROVE  /\ pc' \in [Process -> {"client", "get_logFile", "create_folder", "created",
                                   "gaven_get_time", "fopen", "got"} \cup Ended]
           /\ goal' \in [Process -> {"message", "close"}] /\ depth' \in [Process -> 0..MaxDepth]
  <1> USE DEF Typed
  <1>1. goal' \in [Process -> {"message", "close"}] /\ depth[p] \in 0..MaxDepth
    BY DEF gaven_assert_message
  <1>2. CASE depth[p] < MaxDepth
    <2>1. pc' = [pc EXCEPT ![p] = "get_logFile"] /\ depth' = [depth EXCEPT ![p] = @ + 1]
      BY <1>2 DEF gaven_assert_message, Goto
    <2>2. depth[p] + 1 \in 0..MaxDepth
      BY <1>1, <1>2, BoundAssumption
    <2>3. QED
      BY <1>1, <2>1, <2>2
  <1>3. CASE ~(depth[p] < MaxDepth)
    <2>1. pc' = [pc EXCEPT ![p] = "overflown"] /\ depth' = depth
      BY <1>3 DEF gaven_assert_message, Goto
    <2>2. QED
      BY <1>1, <2>1 DEF Ended
  <1>4. QED
    BY <1>2, <1>3

LEMMA TypedStep == Typed /\ [Next]_vars => Typed'
  <1> SUFFICES ASSUME Typed, [Next]_vars PROVE Typed'
    OBVIOUS
  <1> USE DEF Typed, outside, stream, history
  <1>1. CASE Tick
    BY <1>1, BoundAssumption DEF Tick, process
  <1>2. ASSUME NEW p \in Process, Client(p) PROVE Typed'
    <2>1. CASE GAVEN_WARN(p)
      BY <2>1 DEF GAVEN_WARN, Goto
    <2>2. CASE GAVEN_ASSERT(p)
      BY <2>2, AssertTyped DEF GAVEN_ASSERT
    <2>3. CASE destroy_application(p)
      BY <2>3 DEF destroy_application, Teardown
    <2>4. CASE destroy_logging(p)
      BY <2>4 DEF destroy_logging, Goto
    <2>5. CASE Return(p)
      BY <2>5 DEF Return, Goto, Ended
    <2>6. QED
      BY <1>2, <2>1, <2>2, <2>3, <2>4, <2>5 DEF Client
  <1>3. ASSUME NEW p \in Process, Step(p) PROVE Typed'
    <2>1. CASE get_logFile(p)
      BY <2>1 DEF get_logFile, Goto
    <2>2. CASE create_folder(p)
      <3>1. /\ folder' = folder \/ folder' = "folder"
            /\ refused' = refused \/ refused' = [refused EXCEPT ![p] = @ + 1]
        BY <2>2 DEF create_folder, Refuse
      <3>2. pc' \in [Process -> {"client", "get_logFile", "create_folder", "created",
                                 "gaven_get_time", "fopen", "got"} \cup Ended]
        BY <2>2 DEF create_folder, Goto
      <3>3. refused' \in [Process -> Nat]
        <4>1. CASE refused' = refused
          BY <4>1
        <4>2. CASE refused' = [refused EXCEPT ![p] = @ + 1]
          BY <4>2
        <4>3. QED
          BY <3>1, <4>1, <4>2
      <3>4. QED
        BY <2>2, <3>1, <3>2, <3>3 DEF create_folder
    <2>3. CASE AssertFolder(p)
      <3>1. CASE check_folder_exists
        BY <2>3, <3>1 DEF AssertFolder, Goto
      <3>2. CASE ~check_folder_exists
        BY <2>3, <3>2, AssertTyped DEF AssertFolder
      <3>3. QED
        BY <3>1, <3>2
    <2>4. CASE gaven_get_time(p) \/ fopen(p)
      <3>1. CASE gaven_get_time(p)
        BY <3>1 DEF gaven_get_time, Goto
      <3>2. CASE fopen(p)
        <4>1. log' \in [Process -> 0..MaxSecond] /\ disk' \in [1..MaxSecond -> Seq(Cell)]
          <5>1. << >> \in Seq(Cell) /\ buffer[p] \in 0..MaxSecond
            OBVIOUS
          <5>2. /\ log' = [log EXCEPT ![p] = buffer[p]]
                /\ disk' = [disk EXCEPT ![buffer[p]] = << >>]
            BY <3>2 DEF fopen
          <5>3. QED
            BY <5>1, <5>2
        <4>2. QED
          BY <3>2, <4>1 DEF fopen, Goto
      <3>3. QED
        BY <2>4, <3>1, <3>2
    <2>5. CASE fopenFails(p)
      <3>1. gaven_assert_message(p) /\ refused' \in [Process -> Nat]
        BY <2>5 DEF fopenFails, Refuse
      <3>2. QED
        BY <2>5, <3>1, AssertTyped DEF fopenFails
    <2>6. CASE log_to_file(p)
      <3> DEFINE cell == [by |-> p, is |-> IF depth[p] > 0 THEN "assertion" ELSE "message",
                          n |-> Len(written[p]) + 1]
      <3>1. written[p] \in Seq(Cell) /\ Len(written[p]) \in Nat /\ offset[p] \in Nat
        OBVIOUS
      <3>2. cell \in Cell
        BY <3>1 DEF Cell
      <3> HIDE DEF cell
      <3>3. ASSUME log[p] \in 1..MaxSecond
            PROVE  Put(disk[log[p]], offset[p] + 1, cell) \in Seq(Cell)
        <4>1. disk[log[p]] \in Seq(Cell) /\ offset[p] + 1 \in Nat /\ offset[p] + 1 > 0
          BY <3>1, <3>3
        <4>2. QED
          BY <3>2, <4>1, PutIsFile
      <3>4. /\ disk' = [disk EXCEPT ![log[p]] = Put(@, offset[p] + 1, cell)]
            /\ written' = [written EXCEPT ![p] = Append(@, cell)]
        BY <2>6 DEF log_to_file, cell
      <3>5. disk' \in [1..MaxSecond -> Seq(Cell)]
        BY <3>3, <3>4
      <3>6. written' \in [Process -> Seq(Cell)]
        BY <3>1, <3>2, <3>4
      <3>7. QED
        BY <2>6, <3>5, <3>6 DEF log_to_file, Goto, Ended
    <2>7. CASE fclose(p)
      BY <2>7 DEF fclose, Goto
    <2>8. CASE UseClosed(p)
      BY <2>8 DEF UseClosed, Goto, Ended
    <2>9. QED
      BY <1>3, <2>1, <2>2, <2>3, <2>4, <2>5, <2>6, <2>7, <2>8 DEF Step
  <1>4. ASSUME NEW p \in Process, Kill(p) PROVE Typed'
    BY <1>4 DEF Kill, Goto, Ended
  <1>5. CASE UNCHANGED vars
    BY <1>5 DEF vars, process
  <1>6. QED
    BY <1>1, <1>2, <1>3, <1>4, <1>5 DEF Next

LEMMA AlwaysTyped == Spec => []Typed
  BY TypedInit, TypedStep, PTL DEF Spec

-----------------------------------------------------------------------------
(* What the actions have in common.                                        *)

Acts(p) == Client(p) \/ Step(p) \/ Kill(p)

(* What belongs to a process stays as it is.                               *)
Same(q) ==
    /\ pc'[q] = pc[q] /\ buffer'[q] = buffer[q] /\ log'[q] = log[q]
    /\ closed'[q] = closed[q] /\ offset'[q] = offset[q] /\ goal'[q] = goal[q] /\ depth'[q] = depth[q]
    /\ stage'[q] = stage[q] /\ written'[q] = written[q] /\ refused'[q] = refused[q]
    /\ asserted'[q] = asserted[q]

(* One assertion more is pending, or the stack is full.                    *)
LEMMA AssertPends ==
    ASSUME Typed, NEW p \in Process, gaven_assert_message(p)
    PROVE  /\ pc'[p] \in {"get_logFile", "overflown"} /\ goal'[p] = "message"
           /\ depth'[p] + One(pc'[p] = "overflown") = depth[p] + 1
  <1>1. depth[p] \in Nat /\ p \in DOMAIN pc /\ p \in DOMAIN goal /\ p \in DOMAIN depth
    BY BoundAssumption DEF Typed
  <1>2. CASE depth[p] < MaxDepth
    BY <1>1, <1>2 DEF gaven_assert_message, Goto, One
  <1>3. CASE ~(depth[p] < MaxDepth)
    BY <1>1, <1>3 DEF gaven_assert_message, Goto, One
  <1>4. QED
    BY <1>2, <1>3

LEMMA AssertSame ==
    ASSUME Typed, NEW p \in Process, NEW q \in Process, p # q, gaven_assert_message(p)
    PROVE  pc'[q] = pc[q] /\ goal'[q] = goal[q] /\ depth'[q] = depth[q]
  <1>1. CASE depth[p] < MaxDepth
    BY <1>1 DEF gaven_assert_message, Goto, Typed
  <1>2. CASE ~(depth[p] < MaxDepth)
    BY <1>2 DEF gaven_assert_message, Goto, Typed
  <1>3. QED
    BY <1>1, <1>2

(* A process changes only what belongs to it, the folder and the files.    *)
LEMMA OthersStay ==
    ASSUME Typed, NEW p \in Process, NEW q \in Process, p # q, Acts(p)
    PROVE  Same(q)
  <1> USE DEF Typed, Same, outside, stream, history
  <1>1. CASE GAVEN_WARN(p)
    BY <1>1 DEF GAVEN_WARN, Goto
  <1>2. CASE GAVEN_ASSERT(p)
    BY <1>2, AssertSame DEF GAVEN_ASSERT
  <1>3. CASE destroy_application(p)
    BY <1>3 DEF destroy_application
  <1>4. CASE destroy_logging(p)
    BY <1>4 DEF destroy_logging, Goto
  <1>5. CASE Return(p)
    BY <1>5 DEF Return, Goto
  <1>6. CASE get_logFile(p)
    BY <1>6 DEF get_logFile, Goto
  <1>7. CASE create_folder(p)
    <2>1. refused' = refused \/ refused' = [refused EXCEPT ![p] = @ + 1]
      BY <1>7 DEF create_folder, Refuse
    <2>2. refused'[q] = refused[q]
      BY <2>1
    <2>3. QED
      BY <1>7, <2>2 DEF create_folder, Goto
  <1>8. CASE AssertFolder(p)
    BY <1>8, AssertSame DEF AssertFolder, Goto
  <1>9. CASE gaven_get_time(p) \/ fopen(p)
    BY <1>9 DEF gaven_get_time, fopen, Goto
  <1>10. CASE fopenFails(p)
    BY <1>10, AssertSame DEF fopenFails, Refuse
  <1>11. CASE log_to_file(p)
    BY <1>11 DEF log_to_file, Goto
  <1>12. CASE fclose(p)
    BY <1>12 DEF fclose, Goto
  <1>13. CASE UseClosed(p)
    BY <1>13 DEF UseClosed, Goto
  <1>14. CASE Kill(p)
    BY <1>14 DEF Kill, Goto
  <1>15. QED
    BY <1>1, <1>2, <1>3, <1>4, <1>5, <1>6, <1>7, <1>8, <1>9, <1>10, <1>11, <1>12, <1>13, <1>14
       DEF Acts, Client, Step

-----------------------------------------------------------------------------
(* Places.                                                                 *)

LEMMA LastAppended ==
    ASSUME NEW S, NEW s \in Seq(S), NEW e \in S
    PROVE  /\ Len(Append(s, e)) = Len(s) + 1 /\ Append(s, e) # << >>
           /\ Last(Append(s, e)) = e
  <1>1. Len(Append(s, e)) = Len(s) + 1 /\ Append(s, e)[Len(s) + 1] = e
    OBVIOUS
  <1>2. QED
    BY <1>1 DEF Last

LEMMA PlacedInit == Init => AllPlaced
  BY BoundAssumption DEF Init, AllPlaced, Placed, Working

(* The process that takes a step keeps its own account.                    *)
LEMMA PlacedStep ==
    ASSUME Typed, NEW p \in Process, Placed(p), Acts(p)
    PROVE  Placed(p)'
  <1> USE DEF Typed, Placed, Working, outside, stream, history
  <1>1. written[p] \in Seq(Cell) /\ Len(written[p]) \in Nat /\ offset[p] \in Nat
    OBVIOUS
  <1>2. CASE GAVEN_WARN(p)
    BY <1>2 DEF GAVEN_WARN, Goto, ClientRuns
  <1>3. CASE GAVEN_ASSERT(p)
    BY <1>3, AssertPends DEF GAVEN_ASSERT, ClientRuns
  <1>4. CASE destroy_application(p)
    BY <1>4 DEF destroy_application, Goto
  <1>5. CASE destroy_logging(p)
    BY <1>5 DEF destroy_logging, Goto
  <1>6. CASE Return(p)
    BY <1>6 DEF Return, Goto
  <1>7. CASE get_logFile(p)
    BY <1>7 DEF get_logFile, Goto
  <1>8. CASE create_folder(p)
    BY <1>8 DEF create_folder, Goto
  <1>9. CASE AssertFolder(p)
    BY <1>9, AssertPends DEF AssertFolder, Goto
  <1>10. CASE gaven_get_time(p) \/ fopen(p)
    BY <1>10 DEF gaven_get_time, fopen, Goto
  <1>11. CASE fopenFails(p)
    BY <1>11, AssertPends DEF fopenFails
  <1>12. CASE log_to_file(p)
    <2> DEFINE cell == [by |-> p, is |-> IF depth[p] > 0 THEN "assertion" ELSE "message",
                        n |-> Len(written[p]) + 1]
    <2>1. written'[p] = Append(written[p], cell)
      BY <1>12 DEF log_to_file
    <2>2. cell \in Cell
      BY <1>1 DEF Cell
    <2> HIDE DEF cell
    <2>3. /\ Len(written'[p]) = Len(written[p]) + 1 /\ written'[p] # << >>
          /\ Last(written'[p]) = cell
      <3>1. /\ Len(Append(written[p], cell)) = Len(written[p]) + 1
            /\ Append(written[p], cell) # << >> /\ Last(Append(written[p], cell)) = cell
        BY ONLY <1>1, <2>2, LastAppended
      <3>2. QED
        BY ONLY <2>1, <3>1
    <2>4. pc'[p] = "trapped" => cell.is = "assertion"
      BY <1>12 DEF log_to_file, Goto, cell
    <2>5. offset'[p] = offset[p] + 1 /\ log'[p] = log[p] /\ log[p] # 0
      BY <1>12 DEF log_to_file
    <2>6. pc'[p] \in {"trapped", "client"}
      BY <1>12 DEF log_to_file, Goto
    <2>7. Len(written[p]) < MaxLogged \/ written[p] = << >>
      BY <1>12 DEF log_to_file
    <2>8. Len(written'[p]) <= MaxLogged + 1
      BY <1>1, <2>3, <2>7, BoundAssumption
    <2>9. QED
      BY <2>3, <2>4, <2>5, <2>6, <2>8
  <1>13. CASE fclose(p)
    BY <1>13 DEF fclose, Goto
  <1>14. CASE UseClosed(p)
    BY <1>14 DEF UseClosed, Goto
  <1>15. CASE Kill(p)
    BY <1>15 DEF Kill, Goto
  <1>16. QED
    BY <1>2, <1>3, <1>4, <1>5, <1>6, <1>7, <1>8, <1>9,
       <1>10, <1>11, <1>12, <1>13, <1>14, <1>15
       DEF Acts, Client, Step

LEMMA PlacedNext ==
    ASSUME Typed, AllPlaced, [Next]_vars
    PROVE  AllPlaced'
  <1> USE DEF AllPlaced
  <1> TAKE q \in Process
  <1>1. CASE UNCHANGED process
    BY <1>1 DEF process, stream, history, Placed
  <1>2. ASSUME NEW p \in Process, Acts(p) PROVE Placed(q)'
    BY <1>2, PlacedStep, OthersStay DEF Same, Placed
  <1>3. QED
    BY <1>1, <1>2 DEF Next, Acts, Tick, vars, process, outside

-----------------------------------------------------------------------------
(* Assertions and refusals.                                                *)

LEMMA CountedInit == Init => AllCounted
  BY DEF Init, AllCounted, Counted, One

LEMMA CountedStep ==
    ASSUME Typed, NEW p \in Process, Counted(p), Acts(p)
    PROVE  Counted(p)'
  <1> USE DEF Typed, Counted, One, outside, stream, history
  <1>1. depth[p] \in Nat /\ refused[p] \in Nat /\ asserted[p] \in BOOLEAN
    BY BoundAssumption
  <1>2. CASE GAVEN_WARN(p)
    BY <1>2 DEF GAVEN_WARN, Goto, ClientRuns
  <1>3. CASE GAVEN_ASSERT(p)
    <2>1. asserted'[p] = TRUE /\ refused'[p] = refused[p] /\ depth[p] = 0
      BY <1>3 DEF GAVEN_ASSERT, ClientRuns
    <2>2. QED
      BY <1>1, <2>1, <1>3, AssertPends DEF GAVEN_ASSERT
  <1>4. CASE destroy_application(p)
    BY <1>4 DEF destroy_application, Goto
  <1>5. CASE destroy_logging(p)
    BY <1>5 DEF destroy_logging, Goto
  <1>6. CASE Return(p)
    BY <1>6 DEF Return, Goto
  <1>7. CASE get_logFile(p)
    BY <1>7 DEF get_logFile, Goto
  <1>8. CASE create_folder(p)
    <2>1. pc[p] = "create_folder" /\ pc'[p] = "created"
      BY <1>8 DEF create_folder, Goto
    <2>2. depth'[p] = depth[p] /\ goal'[p] = goal[p] /\ asserted'[p] = asserted[p]
      BY <1>8 DEF create_folder
    <2>3. \/ refused' = refused /\ folder' = "folder"
          \/ refused' = [refused EXCEPT ![p] = @ + 1]
      BY <1>8 DEF create_folder, Refuse
    <2>4. CASE refused' = refused /\ folder' = "folder"
      BY <2>1, <2>2, <2>4
    <2>5. CASE refused' = [refused EXCEPT ![p] = @ + 1]
      <3>1. refused'[p] = refused[p] + 1
        BY <2>5
      <3>2. depth[p] <= refused[p] + One(asserted[p])
        BY <1>1, <2>1
      <3>3. QED
        BY <1>1, <2>1, <2>2, <3>1, <3>2
    <2>6. QED
      BY <2>3, <2>4, <2>5
  <1>9. CASE AssertFolder(p)
    <2>1. refused'[p] = refused[p] /\ asserted'[p] = asserted[p]
      BY <1>9 DEF AssertFolder
    <2>2. CASE check_folder_exists
      BY <1>9, <2>2, <2>1 DEF AssertFolder, Goto
    <2>3. CASE ~check_folder_exists
      <3>1. depth[p] + 1 <= refused[p] + One(asserted[p])
        BY <1>9, <2>3 DEF AssertFolder, check_folder_exists
      <3>2. QED
        BY <1>1, <1>9, <2>1, <2>3, <3>1, AssertPends DEF AssertFolder
    <2>4. QED
      BY <2>2, <2>3
  <1>10. CASE gaven_get_time(p) \/ fopen(p)
    BY <1>10 DEF gaven_get_time, fopen, Goto
  <1>11. CASE fopenFails(p)
    <2>1. refused'[p] = refused[p] + 1 /\ asserted'[p] = asserted[p] /\ pc[p] = "fopen"
      BY <1>11 DEF fopenFails, Refuse
    <2>2. /\ pc'[p] \in {"get_logFile", "overflown"} /\ goal'[p] = "message"
          /\ depth'[p] + One(pc'[p] = "overflown") = depth[p] + 1
      <3>1. gaven_assert_message(p)
        BY <1>11 DEF fopenFails
      <3>2. QED
        BY <3>1, AssertPends
    <2>3. QED
      BY <1>1, <2>1, <2>2
  <1>12. CASE log_to_file(p)
    BY <1>12 DEF log_to_file, Goto
  <1>13. CASE fclose(p)
    BY <1>13 DEF fclose, Goto
  <1>14. CASE UseClosed(p)
    BY <1>14 DEF UseClosed, Goto
  <1>15. CASE Kill(p)
    BY <1>15 DEF Kill, Goto
  <1>16. QED
    BY <1>2, <1>3, <1>4, <1>5, <1>6, <1>7, <1>8, <1>9,
       <1>10, <1>11, <1>12, <1>13, <1>14, <1>15
       DEF Acts, Client, Step

LEMMA CountedNext ==
    ASSUME Typed, AllCounted, [Next]_vars
    PROVE  AllCounted'
  <1> USE DEF AllCounted
  <1> TAKE q \in Process
  <1>1. CASE UNCHANGED <<folder, process>>
    BY <1>1 DEF process, stream, history, Counted, One
  <1>2. ASSUME NEW p \in Process, Acts(p) PROVE Counted(q)'
    <2>1. CASE p = q
      BY <1>2, <2>1, CountedStep
    <2>2. CASE p # q
      <3>1. Same(q)
        BY <1>2, <2>2, OthersStay
      <3>2. folder' # "folder" => folder # "folder"
        BY <1>2 DEF Acts, Client, Step, GAVEN_WARN, GAVEN_ASSERT, destroy_application,
              destroy_logging, Return, get_logFile, create_folder, AssertFolder, gaven_get_time,
              fopen, fopenFails, log_to_file, fclose, UseClosed, Kill, outside
      <3>3. QED
        BY <3>1, <3>2 DEF Same, Counted, One
    <2>3. QED
      BY <2>1, <2>2
  <1>3. QED
    BY <1>1, <1>2 DEF Next, Acts, Tick, vars, process, outside

-----------------------------------------------------------------------------
(* The end of the log.                                                     *)

LEMMA ClosingInit == Init => AllClosing
  BY DEF Init, AllClosing, Closing, Working

LEMMA ClosingStep ==
    ASSUME Typed, NEW p \in Process, Closing(p), Acts(p)
    PROVE  Closing(p)'
  <1> USE DEF Typed, Closing, Working, outside, stream, history
  <1>1. CASE GAVEN_WARN(p)
    BY <1>1 DEF GAVEN_WARN, Goto, ClientRuns
  <1>2. CASE GAVEN_ASSERT(p)
    BY <1>2, AssertPends DEF GAVEN_ASSERT, ClientRuns
  <1>3. CASE destroy_application(p)
    BY <1>3 DEF destroy_application, Teardown
  <1>4. CASE destroy_logging(p)
    BY <1>4 DEF destroy_logging, Goto
  <1>5. CASE Return(p)
    BY <1>5 DEF Return, Goto
  <1>6. CASE get_logFile(p)
    BY <1>6 DEF get_logFile, Goto
  <1>7. CASE create_folder(p)
    BY <1>7 DEF create_folder, Goto
  <1>8. CASE AssertFolder(p)
    BY <1>8, AssertPends DEF AssertFolder, Goto
  <1>9. CASE gaven_get_time(p) \/ fopen(p)
    BY <1>9 DEF gaven_get_time, fopen, Goto
  <1>10. CASE fopenFails(p)
    BY <1>10, AssertPends DEF fopenFails
  <1>11. CASE log_to_file(p)
    BY <1>11 DEF log_to_file, Goto
  <1>12. CASE fclose(p)
    BY <1>12 DEF fclose, Goto
  <1>13. CASE UseClosed(p)
    BY <1>13 DEF UseClosed, Goto
  <1>14. CASE Kill(p)
    BY <1>14 DEF Kill, Goto
  <1>15. QED
    BY <1>1, <1>2, <1>3, <1>4, <1>5, <1>6, <1>7, <1>8,
       <1>9, <1>10, <1>11, <1>12, <1>13, <1>14
       DEF Acts, Client, Step

LEMMA ClosingNext ==
    ASSUME Typed, AllClosing, [Next]_vars
    PROVE  AllClosing'
  <1> USE DEF AllClosing
  <1> TAKE q \in Process
  <1>1. CASE UNCHANGED process
    BY <1>1 DEF process, stream, history, Closing
  <1>2. ASSUME NEW p \in Process, Acts(p) PROVE Closing(q)'
    BY <1>2, ClosingStep, OthersStay DEF Same, Closing
  <1>3. QED
    BY <1>1, <1>2 DEF Next, Acts, Tick, vars, process, outside

-----------------------------------------------------------------------------
(* The files.                                                              *)

LEMMA KeptInit == Init => AllKept
  BY DEF Init, AllKept, Kept

(* A message goes to the end of the file of a process that has it to       *)
(* itself, and to no other such file.                                      *)
LEMMA KeptByLog ==
    ASSUME Typed, AllPlaced, AllKept,
           NEW p \in Process, NEW q \in Process, log_to_file(p)
    PROVE  Kept(q)'
  <1> DEFINE cell == [by |-> p, is |-> IF depth[p] > 0 THEN "assertion" ELSE "message",
                      n |-> Len(written[p]) + 1]
  <1>1. /\ disk' = [disk EXCEPT ![log[p]] = Put(@, offset[p] + 1, cell)]
        /\ written' = [written EXCEPT ![p] = Append(@, cell)] /\ log' = log
    BY DEF log_to_file
  <1>2. written[p] \in Seq(Cell) /\ log[p] \in 1..MaxSecond /\ offset[p] = Len(written[p])
    <2>1. pc[p] = "got" /\ ~closed[p]
      BY DEF log_to_file
    <2>2. written[p] \in Seq(Cell) /\ log[p] \in 0..MaxSecond
      BY DEF Typed
    <2>3. log[p] # 0 /\ offset[p] = Len(written[p])
      BY <2>1 DEF AllPlaced, Placed
    <2>4. QED
      BY <2>2, <2>3, BoundAssumption
  <1>3. cell \in Cell
    <2>1. Len(written[p]) + 1 \in Nat \ {0}
      BY <1>2
    <2>2. QED
      BY <2>1 DEF Cell
  <1> HIDE DEF cell
  <1>4. SUFFICES ASSUME log[q] # 0, Sharers(q) = {q}
                 PROVE  disk'[log[q]] = written'[q]
    BY <1>1 DEF Kept, Sharers
  <1>5. disk[log[q]] = written[q]
    BY <1>4 DEF AllKept, Kept
  <1>6. CASE p = q
    <2>1. Put(written[p], Len(written[p]) + 1, cell) = Append(written[p], cell)
      BY <1>2, <1>3, PutAppends
    <2>2. disk'[log[p]] = Put(written[p], Len(written[p]) + 1, cell)
      BY <1>1, <1>2, <1>5, <1>6 DEF Typed
    <2>3. written'[p] = Append(written[p], cell)
      BY <1>1 DEF Typed
    <2>4. QED
      BY <1>6, <2>1, <2>2, <2>3
  <1>7. CASE p # q
    <2>1. log[p] # log[q]
      BY <1>4, <1>7 DEF Sharers
    <2>2. disk'[log[q]] = disk[log[q]] /\ written'[q] = written[q]
      BY <1>1, <1>4, <1>7, <2>1, BoundAssumption DEF Typed
    <2>3. QED
      BY <1>5, <2>2
  <1>8. QED
    BY <1>6, <1>7

(* A file that is opened is empty, as is what its process has written, and *)
(* no other process has it to itself.                                      *)
LEMMA KeptByOpen ==
    ASSUME Typed, AllPlaced, AllKept,
           NEW p \in Process, NEW q \in Process, fopen(p)
    PROVE  Kept(q)'
  <1>1. /\ log' = [log EXCEPT ![p] = buffer[p]] /\ disk' = [disk EXCEPT ![buffer[p]] = << >>]
        /\ written' = written
    BY DEF fopen, history
  <1>2. log[p] = 0 /\ written[p] = << >> /\ buffer[p] \in 1..MaxSecond
    BY BoundAssumption DEF fopen, AllPlaced, Placed, Typed
  <1>3. log'[p] = buffer[p] /\ disk'[buffer[p]] = << >>
    BY <1>1, <1>2 DEF Typed
  <1>4. SUFFICES ASSUME log'[q] # 0, Sharers(q)' = {q}
                 PROVE  disk'[log'[q]] = written'[q]
    BY DEF Kept
  <1>5. CASE p = q
    BY <1>1, <1>2, <1>3, <1>5
  <1>6. CASE p # q
    <2>1. \A r \in Process : r # p => log'[r] = log[r]
      BY <1>1 DEF Typed
    <2>2. log[q] # 0 /\ log[q] # buffer[p]
      BY <1>3, <1>4, <1>6, <2>1 DEF Sharers
    <2>3. Sharers(q) = {q}
      BY <1>2, <1>4, <1>6, <2>1, <2>2 DEF Sharers
    <2>4. disk'[log[q]] = disk[log[q]]
      BY <1>1, <2>2, BoundAssumption DEF Typed
    <2>5. QED
      BY <1>1, <1>6, <2>1, <2>2, <2>3, <2>4 DEF AllKept, Kept
  <1>7. QED
    BY <1>5, <1>6

LEMMA KeptNext ==
    ASSUME Typed, AllPlaced, AllKept, [Next]_vars
    PROVE  AllKept'
  <1> SUFFICES ASSUME NEW q \in Process PROVE Kept(q)'
    BY DEF AllKept
  <1>1. CASE UNCHANGED <<log, disk, written>>
    BY <1>1 DEF AllKept, Kept, Sharers
  <1>2. ASSUME NEW p \in Process, fopen(p) PROVE Kept(q)'
    BY <1>2, KeptByOpen
  <1>3. ASSUME NEW p \in Process, log_to_file(p) PROVE Kept(q)'
    BY <1>3, KeptByLog
  <1>4. ASSUME NEW p \in Process, Acts(p), ~fopen(p), ~log_to_file(p)
        PROVE  UNCHANGED <<log, disk, written>>
    BY <1>4 DEF Acts, Client, Step, GAVEN_WARN, GAVEN_ASSERT, destroy_application,
         destroy_logging, Return, get_logFile, create_folder, AssertFolder,
         gaven_get_time, fopenFails, fclose, UseClosed, Kill, outside, stream, history
  <1>5. QED
    BY <1>1, <1>2, <1>3, <1>4 DEF Next, Acts, Tick, vars, process, outside, stream, history

(* No file is longer than what a process may write.                        *)
Sized == \A s \in 1..MaxSecond : Len(disk[s]) <= MaxLogged + 1

LEMMA SizedInit == Init => Sized
  BY BoundAssumption DEF Init, Sized

LEMMA SizedNext ==
    ASSUME Typed, Sized, AllPlaced, [Next]_vars
    PROVE  Sized'
  <1>1. CASE UNCHANGED disk
    BY <1>1 DEF Sized
  <1>2. ASSUME NEW p \in Process, fopen(p) PROVE Sized'
    <2>1. disk' = [disk EXCEPT ![buffer[p]] = << >>]
      BY <1>2 DEF fopen
    <2>2. QED
      BY <2>1, BoundAssumption DEF Sized, Typed
  <1>3. ASSUME NEW p \in Process, log_to_file(p) PROVE Sized'
    <2> DEFINE cell == [by |-> p, is |-> IF depth[p] > 0 THEN "assertion" ELSE "message",
                        n |-> Len(written[p]) + 1]
    <2>1. disk' = [disk EXCEPT ![log[p]] = Put(@, offset[p] + 1, cell)]
      BY <1>3 DEF log_to_file
    <2>2. offset[p] = Len(written[p]) /\ Len(written[p]) \in Nat /\ log[p] \in 1..MaxSecond
      BY <1>3, BoundAssumption DEF log_to_file, AllPlaced, Placed, Typed
    <2>3. offset[p] < MaxLogged \/ offset[p] = 0
      BY <1>3, <2>2 DEF log_to_file, AllPlaced, Placed, Working
    <2>4. cell \in Cell
      BY <2>2 DEF Cell
    <2> HIDE DEF cell
    <2>5. disk[log[p]] \in Seq(Cell) /\ offset[p] + 1 \in Nat /\ offset[p] + 1 > 0
      BY <2>2 DEF Typed
    <2>6. Len(Put(disk[log[p]], offset[p] + 1, cell))
            = IF Len(disk[log[p]]) > offset[p] + 1 THEN Len(disk[log[p]]) ELSE offset[p] + 1
      BY <2>4, <2>5, PutIsFile
    <2>7. offset[p] + 1 <= MaxLogged + 1
      BY <2>2, <2>3, BoundAssumption
    <2>8. Len(Put(disk[log[p]], offset[p] + 1, cell)) <= MaxLogged + 1
      BY <2>2, <2>6, <2>7 DEF Sized
    <2>9. QED
      BY <2>1, <2>2, <2>8 DEF Sized, Typed
  <1>4. ASSUME NEW p \in Process, Acts(p), ~fopen(p), ~log_to_file(p)
        PROVE  UNCHANGED disk
    BY <1>4 DEF Acts, Client, Step, GAVEN_WARN, GAVEN_ASSERT, destroy_application,
         destroy_logging, Return, get_logFile, create_folder, AssertFolder,
         gaven_get_time, fopenFails, fclose, UseClosed, Kill, outside, stream, history
  <1>5. QED
    BY <1>1, <1>2, <1>3, <1>4 DEF Next, Acts, Tick, vars, process, outside, stream, history

-----------------------------------------------------------------------------
(* The theorems.                                                           *)

LEMMA AlwaysPlaced == Spec => []AllPlaced
  BY AlwaysTyped, PlacedInit, PlacedNext, PTL DEF Spec

(* Whatever the processes, the clock and the file system do, the types are *)
(* kept, and no file is longer than one process can make it.               *)
THEOREM LogTypeCorrect == Spec => []TypeOK
  <1>1. Spec => []Sized
    BY AlwaysTyped, AlwaysPlaced, SizedInit, SizedNext, PTL DEF Spec
  <1>2. Typed /\ Sized => TypeOK
    <2> SUFFICES ASSUME Typed, Sized PROVE TypeOK
      OBVIOUS
    <2>1. ASSUME NEW s \in 1..MaxSecond
          PROVE  \E size \in 0..MaxLogged + 1 : disk[s] \in [1..size -> Cell]
      <3>1. disk[s] \in Seq(Cell) /\ Len(disk[s]) \in 0..MaxLogged + 1
        BY BoundAssumption DEF Typed, Sized
      <3>2. disk[s] \in [1..Len(disk[s]) -> Cell]
        BY <3>1
      <3>3. QED
        BY <3>1, <3>2
    <2>2. ToSet(Teardown) = {"running", "closing", "detaching", "destroyed"}
      BY DEF ToSet, Teardown
    <2>3. QED
      BY <2>1, <2>2 DEF Typed, TypeOK
  <1>3. QED
    BY AlwaysTyped, <1>1, <1>2, PTL

(* The file of a process that has it to itself holds exactly what the      *)
(* process has logged, in order, whatever ended it.                        *)
THEOREM AlwaysKept == Spec => []MessagesKept
  <1>1. Spec => []AllKept
    BY AlwaysTyped, AlwaysPlaced, KeptInit, KeptNext, PTL DEF Spec
  <1>2. AllKept => MessagesKept
    BY DEF AllKept, Kept, MessagesKept
  <1>3. QED
    BY <1>1, <1>2, PTL

(* The assertion that ends a process is in its log by then.                *)
THEOREM AlwaysReason == Spec => []ReasonOnDisk
  <1>1. AllPlaced /\ MessagesKept => ReasonOnDisk
    BY DEF AllPlaced, Placed, MessagesKept, ReasonOnDisk
  <1>2. QED
    BY AlwaysPlaced, AlwaysKept, <1>1, PTL

(* Logging asserts only where the file system refused it something.        *)
THEOREM AlwaysRefused == Spec => []AssertsIfRefused
  <1>1. Spec => []AllCounted
    BY AlwaysTyped, CountedInit, CountedNext, PTL DEF Spec
  <1>2. AllCounted => AssertsIfRefused
    BY DEF AllCounted, Counted, One, AssertsIfRefused
  <1>3. QED
    BY <1>1, <1>2, PTL

(* Only a client that logs after destroy_application uses the closed log.  *)
THEOREM AlwaysClosedLast == Spec => []ClosedLast
  <1>1. Spec => []AllClosing
    BY AlwaysTyped, ClosingInit, ClosingNext, PTL DEF Spec
  <1>2. AllClosing => ClosedLast
    BY DEF AllClosing, Closing, ClosedLast
  <1>3. QED
    BY <1>1, <1>2, PTL
=============================================================================
