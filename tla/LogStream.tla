------------------------------ MODULE LogStream ------------------------------
(***************************************************************************)
(* GET /api/logs/stream and the log viewer of index.html: a handler per    *)
(* connection follows the log file by an offset and looks at it every      *)
(* second.  The server's timeouts end it in two ways: the read deadline,   *)
(* still on the connection, cancels the request's context and the handler  *)
(* returns; a write after the write deadline fails.  A viewer whose body   *)
(* ended with an error empties itself and connects again, one whose body   *)
(* ended cleanly stays as it is.                                           *)
(*                                                                         *)
(* A line is a unit of 200 bytes, the length tailLines counts with.  The   *)
(* page asks for the default of 100, which a buffer of 32 KiB holds.       *)
(***************************************************************************)
EXTENDS Naturals, Sequences, SequencesExt

CONSTANTS
    Conns,          \* connections
    NoConn,
    Buf,            \* len(buf): what one Read returns at most
    TailLines,      \* tailLines
    MaxLines,       \* bound: lines the program logs
    MaxTruncations, \* bound: times an operator empties the file
    MaxVisits       \* bound: times a user opens the page

ASSUME StreamAssumption == /\ NoConn \notin Conns
                           /\ Buf \in Nat \ {0} /\ TailLines \in 1 .. Buf
                           /\ {MaxLines, MaxTruncations, MaxVisits} \subseteq Nat

VARIABLES
    file,           \* docker-build.log, the lines by their number
    written,        \* lines logged
    truncations, visits,
    pc,             \* where StreamLogs is, by connection
    lastPos,        \* its lastPos
    late,           \* WriteTimeout: writes fail from now on
    gone,           \* r.Context() is done
    wire,           \* flushed and not yet read by the page
    conn,           \* the viewer's connection
    logViewer       \* what it shows

fileVars == <<file, written, truncations>>
connVars == <<pc, lastPos, late, gone, wire>>
pageVars == <<visits, conn, logViewer>>
vars == <<fileVars, connVars, pageVars>>

TypeOK ==
    /\ file \in Seq(1 .. MaxLines) /\ written \in 0 .. MaxLines
    /\ truncations \in 0 .. MaxTruncations /\ visits \in 0 .. MaxVisits
    /\ pc \in [Conns -> {"free", "open", "read", "wait"}]
    /\ lastPos \in [Conns -> Nat]
    /\ late \in [Conns -> BOOLEAN] /\ gone \in [Conns -> BOOLEAN]
    /\ wire \in [Conns -> Seq(1 .. MaxLines)] /\ logViewer \in Seq(1 .. MaxLines)
    /\ conn \in Conns \union {NoConn}
    /\ \A c \in Conns : pc[c] = "read" => lastPos[c] <= written

Init ==
    /\ file = <<>> /\ written = 0 /\ truncations = 0 /\ visits = 0
    /\ pc = [c \in Conns |-> "free"] /\ lastPos = [c \in Conns |-> 0]
    /\ late = [c \in Conns |-> FALSE] /\ gone = [c \in Conns |-> FALSE]
    /\ wire = [c \in Conns |-> <<>>]
    /\ conn = NoConn /\ logViewer = <<>>

-----------------------------------------------------------------------------

(* log.Printf: the file is opened with O_APPEND.                           *)
LogLine ==
    /\ written < MaxLines
    /\ written' = written + 1
    /\ file' = Append(file, written + 1)
    /\ UNCHANGED <<truncations, connVars, pageVars>>

(* An operator empties the file.                                           *)
Truncate ==
    /\ truncations < MaxTruncations
    /\ truncations' = truncations + 1
    /\ file' = <<>>
    /\ UNCHANGED <<written, connVars, pageVars>>

-----------------------------------------------------------------------------

Goto(c, from, to) == pc[c] = from /\ pc' = [pc EXCEPT ![c] = to]

(* Mutant: the start of a short file is before its beginning.              *)
StartPosBeforeFile == Len(file) - TailLines

StartPos == IF Len(file) > TailLines THEN Len(file) - TailLines ELSE 0

(* Stat, and where to start: an empty file is followed from its beginning. *)
OpenLog(c) ==
    /\ Goto(c, "open", IF file = <<>> THEN "wait" ELSE "read")
    /\ lastPos' = [lastPos EXCEPT ![c] = StartPos]
    /\ UNCHANGED <<late, gone, wire, fileVars, pageVars>>

(* The ticker: nothing to do unless the file is longer than lastPos.       *)
Tick(c) ==
    /\ Len(file) > lastPos[c]
    /\ Goto(c, "wait", "read")
    /\ UNCHANGED <<lastPos, late, gone, wire, fileVars, pageVars>>

Chunk(c) ==
    SubSeq(file, lastPos[c] + 1,
           IF Len(file) > lastPos[c] + Buf THEN lastPos[c] + Buf ELSE Len(file))

(* Mutant: len(buf) is added in place of n.                                *)
NextPosPastBuffer(c) == lastPos[c] + Buf

(* Mutant: the position stays where it was.                                *)
NextPosStays(c) == lastPos[c]

NextPos(c) == lastPos[c] + Len(Chunk(c))

(* Seek, Read, Write and Flush.  A write after the deadline or to nobody   *)
(* fails, which cancels the request's context; the handler does not look   *)
(* at the error.                                                           *)
ReadChunk(c) ==
    /\ Goto(c, "read", "wait")
    /\ lastPos' = [lastPos EXCEPT ![c] = NextPos(c)]
    /\ IF Chunk(c) # <<>> /\ (late[c] \/ conn # c)
       THEN gone' = [gone EXCEPT ![c] = TRUE] /\ UNCHANGED wire
       ELSE wire' = [wire EXCEPT ![c] = @ \o Chunk(c)] /\ UNCHANGED gone
    /\ UNCHANGED <<late, fileVars, pageVars>>

(* The 15 seconds of WriteTimeout; the first chunk is written before.      *)
WriteTimeout(c) ==
    /\ pc[c] = "wait" /\ ~late[c]
    /\ late' = [late EXCEPT ![c] = TRUE]
    /\ UNCHANGED <<pc, lastPos, gone, wire, fileVars, pageVars>>

(* The 15 seconds of ReadTimeout: the deadline of the request's reading    *)
(* stays on the connection, where the server's background read meets it    *)
(* and cancels the context.                                                *)
ReadTimeout(c) ==
    /\ pc[c] # "free" /\ ~gone[c]
    /\ gone' = [gone EXCEPT ![c] = TRUE]
    /\ UNCHANGED <<pc, lastPos, late, wire, fileVars, pageVars>>

(* Mutant: the ticker's case is the only one.                              *)
ContextDoneUnseen(c) ==
    /\ gone[c] /\ Len(file) > lastPos[c] /\ Goto(c, "wait", "free")
    /\ UNCHANGED <<lastPos, late, gone, wire, fileVars, pageVars>>

(* The context's case of the select: the handler returns.                  *)
ContextDone(c) ==
    /\ gone[c] /\ Goto(c, "wait", "free")
    /\ UNCHANGED <<lastPos, late, gone, wire, fileVars, pageVars>>

-----------------------------------------------------------------------------

(* initLogViewer: empty the viewer, fetch.                                 *)
InitLogViewer(c) ==
    /\ Goto(c, "free", "open")
    /\ conn' = c /\ logViewer' = <<>>
    /\ late' = [late EXCEPT ![c] = FALSE] /\ gone' = [gone EXCEPT ![c] = FALSE]
    /\ wire' = [wire EXCEPT ![c] = <<>>] /\ lastPos' = [lastPos EXCEPT ![c] = 0]
    /\ UNCHANGED fileVars

(* A user opens the page.                                                  *)
Visit(c) ==
    /\ visits < MaxVisits /\ conn = NoConn
    /\ visits' = visits + 1
    /\ InitLogViewer(c)

(* The user leaves; the server learns of it from the connection.           *)
Leave ==
    /\ conn # NoConn
    /\ gone' = [gone EXCEPT ![conn] = TRUE]
    /\ conn' = NoConn /\ logViewer' = <<>>
    /\ UNCHANGED <<visits, pc, lastPos, late, wire, fileVars>>

(* reader.read resolves.                                                   *)
Receive ==
    /\ conn # NoConn
    /\ wire[conn] # <<>>
    /\ logViewer' = logViewer \o wire[conn]
    /\ wire' = [wire EXCEPT ![conn] = <<>>]
    /\ UNCHANGED <<visits, conn, pc, lastPos, late, gone, fileVars>>

(* Mutant: the viewer waits three seconds and stays as it is.              *)
ReconnectNever(c) == FALSE /\ InitLogViewer(c) /\ UNCHANGED visits

(* The handler has returned before the write deadline: the body has its    *)
(* last chunk, and done ends the page's loop for good.                     *)
DoneSeen == conn # NoConn /\ pc[conn] = "free" /\ ~late[conn]

(* It returned after it: the last chunk cannot be written, reader.read     *)
(* fails, and the timer of three seconds starts over.                      *)
Reconnect(c) ==
    /\ conn # NoConn
    /\ pc[conn] = "free" /\ late[conn]
    /\ InitLogViewer(c)
    /\ UNCHANGED visits

-----------------------------------------------------------------------------

StreamLogs(c) == OpenLog(c) \/ Tick(c) \/ ReadChunk(c) \/ ContextDone(c)

Next ==
    \/ LogLine \/ Truncate \/ Leave \/ Receive
    \/ \E c \in Conns :
         StreamLogs(c) \/ WriteTimeout(c) \/ ReadTimeout(c) \/ Visit(c) \/ Reconnect(c)

(* The server's goroutines and the page's event loop run; users, operators *)
(* and the timeouts do as they like.  That is strong fairness for the      *)
(* page: connections live for seconds, and it does not find every one of   *)
(* them, over and over, ended before it has read what they sent.           *)
Fairness ==
    /\ \A c \in Conns : WF_vars(StreamLogs(c))
    /\ SF_vars(Receive)
    /\ WF_vars(\E c \in Conns : Reconnect(c))

Spec == Init /\ [][Next]_vars /\ Fairness

-----------------------------------------------------------------------------

(* The viewer shows no line twice and none before an earlier one, through  *)
(* cut connections and an emptied file.                                    *)
LinesInOrder ==
    \A i \in 1 .. Len(logViewer) - 1 : logViewer[i] < logViewer[i + 1]

(* It leaves no line out while nobody empties the file.                    *)
NoLineIsSkipped ==
    truncations = 0 =>
        \A i \in 1 .. Len(logViewer) - 1 : logViewer[i + 1] = logViewer[i] + 1

(* A line whose write fails, the one that shows the handler that its       *)
(* write deadline has passed, is not lost to a user who stays: the viewer  *)
(* asks again, and the tail of the file still holds it unless TailLines    *)
(* more have been logged.  Only a body that ended cleanly leaves lines out.*)
LinesAreShown ==
    \A n \in 1 .. MaxLines :
        (written = n /\ conn # NoConn) ~>
            (\/ n \in ToSet(logViewer) \/ written >= n + TailLines
             \/ truncations > 0 \/ conn = NoConn \/ DoneSeen)

(* A handler whose client has left, or whose deadlines have passed,        *)
(* returns, though the file keep growing.                                  *)
HandlersReturn == \A c \in Conns : (gone[c] ~> pc[c] = "free")

(* A page that says it is connected, the status it keeps until reader.read *)
(* fails (index.html), shows what is logged.                               *)
ConnectedPagesFollow ==
    \A n \in 1 .. MaxLines :
        (written = n /\ conn # NoConn) ~>
            (\/ n \in ToSet(logViewer) \/ written >= n + TailLines
             \/ truncations > 0 \/ conn = NoConn)

=============================================================================
