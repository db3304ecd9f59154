--------------------------- MODULE LogStreamProofs ---------------------------
(***************************************************************************)
(* For any number of connections, lines, truncations and visits, any tail  *)
(* and any buffer.                                                         *)
(***************************************************************************)
EXTENDS LogStream, SequenceTheorems, TLAPS

(* Lines follow one another: none before an earlier one, and none missing  *)
(* while nobody has emptied the file.                                      *)
Follows(m, n) == m < n /\ (truncations = 0 => n = m + 1)

Chain(s) == \A k \in 1 .. Len(s) - 1 : Follows(s[k], s[k + 1])

(* The number of the line before the file's first.                         *)
Base == written - Len(file)

(* The file holds the last lines logged; all of them, if never emptied.    *)
FileIsTail ==
    /\ Len(file) <= written
    /\ \A k \in 1 .. Len(file) : file[k] = Base + k
    /\ truncations = 0 => Len(file) = written

(* No write to the page's connection has failed.                           *)
Whole(c) == conn = c /\ ~(late[c] /\ gone[c])

(* What was sent ends at the handler's position, or before it when writes  *)
(* have failed or the file was emptied.                                    *)
EndsAt(s, c) ==
    /\ s[Len(s)] <= Base + lastPos[c]
    /\ truncations = 0 /\ Whole(c) => s[Len(s)] = lastPos[c]

WireIsChain ==
    \A c \in Conns : Chain(wire[c]) /\ (wire[c] # <<>> => EndsAt(wire[c], c))

ViewerIsChain ==
    /\ Chain(logViewer)
    /\ logViewer # <<>> =>
         /\ conn # NoConn
         /\ wire[conn] = <<>> => EndsAt(logViewer, conn)
         /\ wire[conn] # <<>> => Follows(logViewer[Len(logViewer)], wire[conn][1])

(* A handler that has yet to choose its position has sent nothing.         *)
NothingIsSent ==
    \A c \in Conns : pc[c] = "open" => wire[c] = <<>> /\ (conn = c => logViewer = <<>>)

Inv == TypeOK /\ FileIsTail /\ WireIsChain /\ ViewerIsChain /\ NothingIsSent

-----------------------------------------------------------------------------

(* One sequence of lines after another.                                    *)
LEMMA Joined ==
    ASSUME NEW s \in Seq(Nat), NEW t \in Seq(Nat), Chain(s), Chain(t),
           s # <<>> /\ t # <<>> => Follows(s[Len(s)], t[1])
    PROVE  /\ Chain(s \o t)
           /\ t # <<>> => (s \o t)[Len(s \o t)] = t[Len(t)]
           /\ s # <<>> => (s \o t)[1] = s[1]
           /\ s = <<>> => s \o t = t
           /\ t = <<>> => s \o t = s
<1>1. /\ Len(s) \in Nat /\ Len(t) \in Nat /\ Len(s \o t) = Len(s) + Len(t)
      /\ \A k \in 1 .. Len(s) + Len(t) :
           (s \o t)[k] = IF k <= Len(s) THEN s[k] ELSE t[k - Len(s)]
  BY ConcatProperties
<1>2. (s = <<>> <=> Len(s) = 0) /\ (t = <<>> <=> Len(t) = 0)
  OBVIOUS
<1>3. ASSUME NEW k \in 1 .. Len(s \o t) - 1 PROVE Follows((s \o t)[k], (s \o t)[k + 1])
  <2>1. CASE k < Len(s)
    BY <1>1, <2>1 DEF Chain
  <2>2. CASE k = Len(s)
    BY <1>1, <1>2, <2>2
  <2>3. CASE k > Len(s)
    <3>1. /\ k - Len(s) \in 1 .. Len(t) - 1
          /\ (s \o t)[k] = t[k - Len(s)] /\ (s \o t)[k + 1] = t[(k - Len(s)) + 1]
      BY <1>1, <2>3, SMTT(30)
    <3> QED
      BY <3>1 DEF Chain
  <2> QED
    BY <1>1, <2>1, <2>2, <2>3
<1>4. Chain(s \o t)
  BY <1>3 DEF Chain
<1>5. t # <<>> => (s \o t)[Len(s \o t)] = t[Len(t)]
  BY <1>1, <1>2
<1>6. s # <<>> => (s \o t)[1] = s[1]
  BY <1>1, <1>2
<1> QED
  BY <1>4, <1>5, <1>6, ConcatEmptySeq

LEMMA ChunkIs ==
    ASSUME TypeOK, FileIsTail, NEW c \in Conns
    PROVE  /\ Chunk(c) \in Seq(1 .. MaxLines) /\ Chunk(c) \in Seq(Nat) /\ Len(Chunk(c)) \in Nat
           /\ \A k \in 1 .. Len(Chunk(c)) : Chunk(c)[k] = Base + lastPos[c] + k
           /\ lastPos[c] <= written => lastPos[c] + Len(Chunk(c)) <= written
<1> DEFINE pos == lastPos[c]
           last == IF Len(file) > pos + Buf THEN pos + Buf ELSE Len(file)
<1>1. MaxLines \in Nat /\ Buf \in Nat
  BY StreamAssumption
<1>2. pos \in Nat /\ Len(file) \in Nat /\ written \in Nat
  BY <1>1 DEF TypeOK
<1>3. last \in Nat /\ last <= Len(file)
  BY <1>1, <1>2
<1>4. \A k \in 1 .. Len(file) : file[k] \in 1 .. MaxLines /\ file[k] = Base + k
  <2>1. file \in Seq(1 .. MaxLines)
    BY DEF TypeOK
  <2>2. \A k \in 1 .. Len(file) : file[k] \in 1 .. MaxLines
    BY <2>1, ElementOfSeq
  <2> QED
    BY <2>2 DEF FileIsTail
<1>5. Chunk(c) = SubSeq(file, pos + 1, last)
  BY DEF Chunk
<1> HIDE DEF last, pos
<1>6. \A k \in pos + 1 .. last : file[k] \in 1 .. MaxLines
  BY <1>2, <1>3, <1>4
<1>7. /\ Chunk(c) \in Seq(1 .. MaxLines)
      /\ Len(Chunk(c)) = IF pos + 1 <= last THEN last - (pos + 1) + 1 ELSE 0
      /\ \A k \in 1 .. last - (pos + 1) + 1 : Chunk(c)[k] = file[(pos + 1) + k - 1]
  BY <1>2, <1>3, <1>5, <1>6, SubSeqProperties
<1>8. Chunk(c) \in Seq(Nat)
  BY <1>7, <1>1, SeqMonotonic
<1>9. Base \in Int
  BY <1>2 DEF Base
<1>10. ASSUME NEW k \in 1 .. Len(Chunk(c)) PROVE Chunk(c)[k] = Base + pos + k
  <2>1. k \in 1 .. last - (pos + 1) + 1 /\ (pos + 1) + k - 1 = pos + k
    BY <1>2, <1>3, <1>7
  <2>2. pos + k \in 1 .. Len(file)
    BY <1>2, <1>3, <2>1
  <2> QED
    BY <1>2, <1>4, <1>7, <1>9, <2>1, <2>2
<1>11. pos <= written => pos + Len(Chunk(c)) <= written
  BY <1>2, <1>3, <1>7 DEF FileIsTail
<1> QED
  BY <1>2, <1>3, <1>7, <1>8, <1>10, <1>11 DEF pos

LEMMA Types ==
    ASSUME TypeOK
    PROVE  /\ MaxLines \in Nat /\ Buf \in Nat \ {0} /\ TailLines \in Nat
           /\ MaxTruncations \in Nat /\ MaxVisits \in Nat
           /\ written \in Nat /\ truncations \in Nat /\ Len(file) \in Nat /\ Base \in Int
           /\ logViewer \in Seq(Nat) /\ Len(logViewer) \in Nat
           /\ \A k \in 1 .. Len(logViewer) : logViewer[k] \in Nat
           /\ logViewer # <<>> => Len(logViewer) \in 1 .. Len(logViewer)
           /\ \A c \in Conns :
                /\ wire[c] \in Seq(1 .. MaxLines) /\ wire[c] \in Seq(Nat)
                /\ lastPos[c] \in Nat
                /\ Len(wire[c]) \in Nat /\ \A k \in 1 .. Len(wire[c]) : wire[c][k] \in Nat
                /\ wire[c] # <<>> => Len(wire[c]) \in 1 .. Len(wire[c])
<1>1. MaxLines \in Nat /\ Buf \in Nat \ {0} /\ TailLines \in Nat
      /\ MaxTruncations \in Nat /\ MaxVisits \in Nat
  BY StreamAssumption
<1>2. written \in Nat /\ truncations \in Nat /\ Len(file) \in Nat
  BY <1>1 DEF TypeOK
<1>3. Base \in Int
  BY <1>2 DEF Base
<1>4. ASSUME NEW s \in Seq(1 .. MaxLines)
      PROVE  /\ s \in Seq(Nat) /\ Len(s) \in Nat /\ \A k \in 1 .. Len(s) : s[k] \in Nat
             /\ s # <<>> => Len(s) \in 1 .. Len(s)
  <2>1. s \in Seq(Nat)
    BY <1>1, SeqMonotonic
  <2>2. \A k \in 1 .. Len(s) : s[k] \in Nat
    BY <2>1, ElementOfSeq
  <2> QED
    BY <2>1, <2>2, EmptySeq
<1>5. logViewer \in Seq(1 .. MaxLines)
  BY DEF TypeOK
<1>6. \A c \in Conns : wire[c] \in Seq(1 .. MaxLines) /\ lastPos[c] \in Nat
  BY DEF TypeOK
<1> QED
  BY <1>1, <1>2, <1>3, <1>4, <1>5, <1>6

LEMMA InvInit == Init => Inv
<1> SUFFICES ASSUME Init PROVE Inv
  OBVIOUS
<1> USE StreamAssumption DEF Init
<1>1. TypeOK
  BY DEF TypeOK
<1>2. FileIsTail
  BY DEF FileIsTail
<1>3. WireIsChain /\ ViewerIsChain /\ NothingIsSent
  BY DEF WireIsChain, ViewerIsChain, NothingIsSent, Chain
<1> QED
  BY <1>1, <1>2, <1>3 DEF Inv

-----------------------------------------------------------------------------

(* What the file does.                                                     *)
LEMMA LogLineStep ==
    ASSUME Inv, LogLine
    PROVE  Inv'
<1> USE DEF Inv, LogLine, connVars, pageVars
<1>0. /\ written \in Nat /\ Len(file) \in Nat /\ MaxLines \in Nat /\ Base \in Int
      /\ written + 1 \in 1 .. MaxLines
  BY Types
<1>1. /\ file' \in Seq(1 .. MaxLines) /\ Len(file') = Len(file) + 1
      /\ file'[Len(file) + 1] = written + 1
      /\ \A k \in 1 .. Len(file) : file'[k] = file[k]
  <2>1. file \in Seq(1 .. MaxLines)
    BY DEF TypeOK
  <2> QED
    BY <1>0, <2>1, AppendProperties
<1>2. Base' = Base
  BY <1>0, <1>1 DEF Base
<1>3. TypeOK'
  BY <1>0, <1>1 DEF TypeOK
<1>4. FileIsTail'
  <2>1. Len(file') <= written' /\ (truncations' = 0 => Len(file') = written')
    BY <1>0, <1>1 DEF FileIsTail
  <2>2. ASSUME NEW k \in 1 .. Len(file') PROVE file'[k] = Base' + k
    <3>1. CASE k = Len(file) + 1
      BY <1>0, <1>1, <1>2, <3>1 DEF Base
    <3>2. CASE k \in 1 .. Len(file)
      BY <1>1, <1>2, <3>2 DEF FileIsTail
    <3> QED
      BY <1>0, <1>1, <3>1, <3>2
  <2> QED
    BY <2>1, <2>2 DEF FileIsTail
<1>5. WireIsChain' /\ ViewerIsChain' /\ NothingIsSent'
  BY <1>2 DEF WireIsChain, ViewerIsChain, NothingIsSent, Chain, Follows, EndsAt, Whole
<1> QED
  BY <1>3, <1>4, <1>5

LEMMA TruncateStep ==
    ASSUME Inv, Truncate
    PROVE  Inv'
<1> USE DEF Inv, Truncate, connVars, pageVars
<1>0. /\ written \in Nat /\ Len(file) \in Nat /\ truncations \in Nat /\ MaxTruncations \in Nat
      /\ Base \in Int /\ Base <= written
  BY Types DEF Base
<1>1. truncations' # 0 /\ Base' = written /\ Base <= Base'
  BY <1>0 DEF Base
<1>2. TypeOK'
  BY <1>0 DEF TypeOK
<1>3. FileIsTail'
  BY <1>0, <1>1 DEF FileIsTail
<1>4. WireIsChain'
  <2> SUFFICES ASSUME NEW c \in Conns
               PROVE  Chain(wire[c])' /\ (wire[c] # <<>> => EndsAt(wire[c], c)')
    BY DEF WireIsChain
  <2>1. Chain(wire[c])'
    BY <1>1 DEF WireIsChain, Chain, Follows
  <2>2. wire[c] # <<>> => EndsAt(wire[c], c)'
    <3>1. lastPos[c] \in Nat /\ (wire[c] # <<>> => wire[c][Len(wire[c])] \in Nat)
      BY Types
    <3>2. wire[c] # <<>> => wire[c][Len(wire[c])] <= Base + lastPos[c]
      BY DEF WireIsChain, EndsAt
    <3>3. wire' = wire /\ lastPos' = lastPos
      OBVIOUS
    <3> HIDE DEF Inv, Truncate
    <3> QED
      BY <1>0, <1>1, <3>1, <3>2, <3>3 DEF EndsAt
  <2> QED
    BY <2>1, <2>2
<1>5. ViewerIsChain'
  <2>1. Chain(logViewer)'
    BY <1>1 DEF ViewerIsChain, Chain, Follows
  <2>2. ASSUME logViewer # <<>>
        PROVE  /\ conn # NoConn
               /\ wire[conn] = <<>> => EndsAt(logViewer, conn)'
               /\ wire[conn] # <<>> => Follows(logViewer[Len(logViewer)], wire[conn][1])'
    <3>1. conn \in Conns
      BY <2>2 DEF ViewerIsChain, TypeOK
    <3>2. wire[conn] = <<>> => EndsAt(logViewer, conn)'
      <4>1. lastPos[conn] \in Nat /\ logViewer[Len(logViewer)] \in Nat
        BY <2>2, <3>1, Types
      <4>2. wire[conn] = <<>> => logViewer[Len(logViewer)] <= Base + lastPos[conn]
        BY <2>2 DEF ViewerIsChain, EndsAt, Whole
      <4>3. /\ logViewer' = logViewer /\ lastPos' = lastPos /\ conn' = conn
            /\ wire' = wire /\ gone' = gone
        OBVIOUS
      <4> HIDE DEF Inv, Truncate
      <4> QED
        BY <1>0, <1>1, <4>1, <4>2, <4>3 DEF EndsAt, Whole
    <3> QED
      BY <1>1, <2>2, <3>2 DEF ViewerIsChain, Follows
  <2> QED
    BY <2>1, <2>2 DEF ViewerIsChain
<1>6. NothingIsSent'
  BY DEF NothingIsSent
<1> QED
  BY <1>2, <1>3, <1>4, <1>5, <1>6

-----------------------------------------------------------------------------

(* What the handler does.  The file is as it was.                          *)
LEMMA FileStays ==
    ASSUME FileIsTail, UNCHANGED fileVars
    PROVE  FileIsTail' /\ Base' = Base
BY DEF FileIsTail, Base, fileVars

LEMMA OpenLogStep ==
    ASSUME Inv, NEW c \in Conns, OpenLog(c)
    PROVE  Inv'
<1> USE DEF Inv, OpenLog, Goto, fileVars, pageVars
<1>1. FileIsTail' /\ Base' = Base
  BY FileStays
<1>2. StartPos \in Nat /\ StartPos <= written
  BY Types DEF StartPos, FileIsTail
<1>3. TypeOK'
  BY <1>2 DEF TypeOK
<1>4. /\ wire[c] = <<>> /\ (conn = c => logViewer = <<>>)
      /\ \A d \in Conns \ {c} : lastPos'[d] = lastPos[d] /\ pc'[d] = pc[d]
      /\ pc'[c] # "open"
  BY DEF NothingIsSent, TypeOK
<1>5. WireIsChain'
  BY <1>1, <1>4 DEF WireIsChain, Chain, Follows, EndsAt, Whole
<1>6. ViewerIsChain'
  <2>1. logViewer # <<>> => conn \in Conns \ {c}
    BY <1>4 DEF ViewerIsChain, TypeOK
  <2> QED
    BY <1>1, <1>4, <2>1 DEF ViewerIsChain, Chain, Follows, EndsAt, Whole
<1>7. NothingIsSent'
  BY <1>4 DEF NothingIsSent
<1> QED
  BY <1>1, <1>3, <1>5, <1>6, <1>7

LEMMA TickStep ==
    ASSUME Inv, NEW c \in Conns, Tick(c)
    PROVE  Inv'
<1> USE DEF Inv, Tick, Goto, fileVars, pageVars
<1>1. FileIsTail' /\ Base' = Base
  BY FileStays
<1>2. TypeOK'
  <2>1. pc' \in [Conns -> {"free", "open", "read", "wait"}]
    BY DEF TypeOK
  <2>2. \A d \in Conns : pc'[d] = "read" => pc[d] = "read" \/ d = c
    BY DEF TypeOK
  <2>3. lastPos[c] <= written
    <3>1. /\ lastPos[c] \in Nat /\ Len(file) \in Nat /\ written \in Nat
          /\ Len(file) > lastPos[c]
      BY Types
    <3> QED
      BY <3>1 DEF FileIsTail
  <2> QED
    BY <2>1, <2>2, <2>3 DEF TypeOK
<1>3. WireIsChain' /\ ViewerIsChain'
  <2>1. WireIsChain'
    BY <1>1 DEF WireIsChain, Chain, Follows, EndsAt, Whole
  <2>2. ViewerIsChain'
    BY <1>1 DEF ViewerIsChain, Chain, Follows, EndsAt, Whole
  <2> QED
    BY <2>1, <2>2
<1>4. NothingIsSent'
  BY DEF NothingIsSent, TypeOK
<1> QED
  BY <1>1, <1>2, <1>3, <1>4

LEMMA WriteTimeoutStep ==
    ASSUME Inv, NEW c \in Conns, WriteTimeout(c)
    PROVE  Inv'
<1> USE DEF Inv, WriteTimeout, fileVars, pageVars
<1>1. FileIsTail' /\ Base' = Base
  BY FileStays
<1>2. TypeOK'
  BY DEF TypeOK
<1>3. WireIsChain' /\ ViewerIsChain' /\ NothingIsSent'
  BY <1>1 DEF WireIsChain, ViewerIsChain, NothingIsSent, Chain, Follows, EndsAt, Whole
<1> QED
  BY <1>1, <1>2, <1>3

LEMMA ReadTimeoutStep ==
    ASSUME Inv, NEW c \in Conns, ReadTimeout(c)
    PROVE  Inv'
<1> USE DEF Inv, ReadTimeout, fileVars, pageVars
<1>1. FileIsTail' /\ Base' = Base
  BY FileStays
<1>2. TypeOK' /\ \A d \in Conns : gone[d] => gone'[d]
  BY DEF TypeOK
<1>3. ASSUME NEW s, NEW d \in Conns, EndsAt(s, d) PROVE EndsAt(s, d)'
  BY <1>1, <1>2, <1>3 DEF EndsAt, Whole
<1>4. WireIsChain'
  BY <1>3 DEF WireIsChain, Chain, Follows
<1>5. ViewerIsChain'
  BY <1>3 DEF ViewerIsChain, Chain, Follows, TypeOK
<1>6. NothingIsSent'
  BY DEF NothingIsSent
<1> QED
  BY <1>1, <1>2, <1>4, <1>5, <1>6

LEMMA ContextDoneStep ==
    ASSUME Inv, NEW c \in Conns, ContextDone(c)
    PROVE  Inv'
<1> USE DEF Inv, ContextDone, Goto, fileVars, pageVars
<1>1. FileIsTail' /\ Base' = Base
  BY FileStays
<1>2. TypeOK'
  BY DEF TypeOK
<1>3. WireIsChain' /\ ViewerIsChain'
  BY <1>1 DEF WireIsChain, ViewerIsChain, Chain, Follows, EndsAt, Whole
<1>4. NothingIsSent'
  BY DEF NothingIsSent, TypeOK
<1> QED
  BY <1>1, <1>2, <1>3, <1>4

LEMMA ReadChunkStep ==
    ASSUME Inv, NEW c \in Conns, ReadChunk(c)
    PROVE  Inv'
<1> USE DEF Inv, Goto, fileVars, pageVars
<1> DEFINE s == wire[c]
           t == Chunk(c)
<1>1. FileIsTail' /\ Base' = Base
  BY FileStays DEF ReadChunk
<1>2. /\ s \in Seq(Nat) /\ s \in Seq(1 .. MaxLines) /\ t \in Seq(Nat)
      /\ t \in Seq(1 .. MaxLines) /\ Len(t) \in Nat /\ Len(s) \in Nat
      /\ lastPos[c] \in Nat /\ Base \in Int /\ truncations \in Nat
      /\ (truncations = 0 => Base = 0)
  BY Types, ChunkIs DEF FileIsTail, Base
<1>3. /\ \A k \in 1 .. Len(t) : t[k] = Base + lastPos[c] + k
      /\ NextPos(c) = lastPos[c] + Len(t) /\ lastPos'[c] = NextPos(c)
      /\ pc'[c] = "wait" /\ pc[c] = "read"
      /\ \A d \in Conns \ {c} : /\ lastPos'[d] = lastPos[d] /\ pc'[d] = pc[d]
                                /\ wire'[d] = wire[d] /\ gone'[d] = gone[d]
  BY ChunkIs DEF ReadChunk, NextPos, TypeOK
<1>4. IF t # <<>> /\ (late[c] \/ conn # c)
      THEN gone'[c] = TRUE /\ wire' = wire
      ELSE wire'[c] = s \o t /\ gone' = gone
  BY DEF ReadChunk, TypeOK
<1>5. UNCHANGED <<late, fileVars, pageVars>>
  BY DEF ReadChunk
<1>6. TypeOK'
  <2>1. /\ pc' \in [Conns -> {"free", "open", "read", "wait"}]
        /\ lastPos' \in [Conns -> Nat] /\ gone' \in [Conns -> BOOLEAN]
    <3>1. NextPos(c) \in Nat
      BY <1>2, <1>3
    <3>2. pc' \in [Conns -> {"free", "open", "read", "wait"}]
      BY DEF ReadChunk, TypeOK
    <3>3. lastPos' \in [Conns -> Nat]
      BY <3>1 DEF ReadChunk, TypeOK
    <3>4. gone' \in [Conns -> BOOLEAN]
      BY DEF ReadChunk, TypeOK
    <3> QED
      BY <3>2, <3>3, <3>4
  <2>2. wire' \in [Conns -> Seq(1 .. MaxLines)]
    <3>1. s \o t \in Seq(1 .. MaxLines)
      BY <1>2
    <3> QED
      BY <3>1 DEF ReadChunk, TypeOK
  <2>3. \A d \in Conns : pc'[d] = "read" => lastPos'[d] <= written'
    BY <1>3, <1>5 DEF TypeOK
  <2> QED
    BY <1>5, <2>1, <2>2, <2>3 DEF TypeOK
<1> HIDE DEF t
<1>7. CASE t = <<>>
  <2>1. wire' = wire /\ gone' = gone /\ lastPos'[c] = lastPos[c]
    <3>1. s \o t = s /\ Len(t) = 0
      BY <1>2, <1>7, ConcatEmptySeq
    <3>2. wire'[c] = wire[c] /\ gone' = gone
      BY <1>4, <1>7, <3>1
    <3>3. wire' = wire
      BY <1>3, <1>6, <3>2 DEF TypeOK
    <3> QED
      BY <1>2, <1>3, <3>1, <3>2, <3>3
  <2>2. lastPos' = lastPos
    BY <1>3, <1>6, <2>1 DEF TypeOK
  <2>3. WireIsChain' /\ ViewerIsChain'
    BY <1>1, <1>5, <2>1, <2>2 DEF WireIsChain, ViewerIsChain, Chain, Follows, EndsAt, Whole
  <2>4. NothingIsSent'
    BY <1>3, <1>5, <2>1 DEF NothingIsSent
  <2> QED
    BY <1>1, <1>6, <2>3, <2>4
<1>8. CASE t # <<>> /\ (late[c] \/ conn # c)
  <2>1. wire' = wire /\ gone'[c]
    BY <1>4, <1>8
  <2>2. ASSUME NEW z \in Seq(Nat), z # <<>>, EndsAt(z, c) PROVE EndsAt(z, c)'
    <3>1. z[Len(z)] \in Nat
      BY <2>2
    <3>2. ~(Whole(c)')
      BY <1>5, <1>8, <2>1 DEF Whole
    <3>3. lastPos'[c] \in Nat /\ lastPos[c] <= lastPos'[c]
      BY <1>2, <1>3
    <3>4. z[Len(z)] <= Base + lastPos[c]
      BY <2>2 DEF EndsAt
    <3>5. z[Len(z)] <= Base + lastPos'[c]
      BY <1>2, <3>1, <3>3, <3>4
    <3> QED
      BY <1>1, <3>2, <3>5 DEF EndsAt
  <2>3. WireIsChain'
    <3>1. ASSUME NEW d \in Conns, wire[d] # <<>> PROVE EndsAt(wire[d], d)'
      <4>1. CASE d = c
        BY <1>2, <2>1, <2>2, <3>1, <4>1 DEF WireIsChain
      <4>2. CASE d # c
        BY <1>1, <1>3, <1>5, <2>1, <3>1, <4>2 DEF WireIsChain, EndsAt, Whole
      <4> QED
        BY <4>1, <4>2
    <3> QED
      BY <1>5, <2>1, <3>1 DEF WireIsChain, Chain, Follows
  <2>4. ViewerIsChain'
    <3>1. Chain(logViewer)'
      BY <1>1, <1>5, <2>1 DEF ViewerIsChain, Chain, Follows
    <3>2. ASSUME logViewer # <<>>, wire[conn] = <<>> PROVE EndsAt(logViewer, conn)'
      <4>1. conn # NoConn /\ EndsAt(logViewer, conn)
        BY <1>1, <3>2 DEF ViewerIsChain
      <4>2. conn \in Conns /\ logViewer \in Seq(Nat)
        <5>1. conn \in Conns \cup {NoConn}
          BY DEF TypeOK
        <5>2. logViewer \in Seq(Nat)
          BY Types
        <5> QED
          BY <4>1, <5>1, <5>2
      <4>3. CASE conn = c
        <5>1. logViewer' = logViewer /\ conn' = c
          BY <1>5, <4>3
        <5>2. \A z \in Seq(Nat) : z # <<>> /\ EndsAt(z, c) => EndsAt(z, c)'
          BY <2>2
        <5>3. EndsAt(logViewer, c)
          BY <4>1, <4>3
        <5> QED
          BY <3>2, <4>2, <5>1, <5>2, <5>3 DEF EndsAt, Whole
      <4>4. CASE conn # c
        <5>1. lastPos'[conn] = lastPos[conn] /\ gone'[conn] = gone[conn]
          BY <1>3, <4>2, <4>4
        <5> QED
          BY <1>1, <1>5, <4>1, <5>1 DEF EndsAt, Whole
      <4> QED
        BY <4>3, <4>4
    <3>3. ASSUME logViewer # <<>>, wire[conn] # <<>>
          PROVE  Follows(logViewer[Len(logViewer)], wire[conn][1])'
      BY <1>1, <1>5, <2>1, <3>3 DEF ViewerIsChain, Follows
    <3> QED
      BY <1>1, <1>5, <2>1, <3>1, <3>2, <3>3 DEF ViewerIsChain
  <2>5. NothingIsSent'
    BY <1>3, <1>5, <2>1 DEF NothingIsSent
  <2> QED
    BY <1>1, <1>6, <2>3, <2>4, <2>5
<1>9. CASE t # <<>> /\ ~(late[c] \/ conn # c)
  <2>1. wire'[c] = s \o t /\ gone' = gone /\ Whole(c)
    BY <1>4, <1>9 DEF Whole
  <2>2. Len(t) \in 1 .. Len(t) /\ 1 \in 1 .. Len(t)
    BY <1>2, <1>9, EmptySeq
  <2>3. t[1] = Base + lastPos[c] + 1 /\ t[Len(t)] = Base + lastPos'[c]
    <3>1. t[1] = Base + lastPos[c] + 1
      BY <1>3, <2>2
    <3>2. t[Len(t)] = Base + lastPos[c] + Len(t)
      BY <1>3, <2>2
    <3> QED
      BY <1>2, <1>3, <3>1, <3>2
  <2>4. Chain(t)
    <3>1. \A k \in 1 .. Len(t) - 1 : /\ t[k] = Base + lastPos[c] + k
                                     /\ t[k + 1] = Base + lastPos[c] + (k + 1)
      BY <1>2, <1>3
    <3>2. ASSUME NEW k \in 1 .. Len(t) - 1 PROVE Follows(t[k], t[k + 1])
      <4>1. k \in Nat /\ t[k] = Base + lastPos[c] + k /\ t[k + 1] = Base + lastPos[c] + (k + 1)
        BY <1>2, <3>1, SMTT(30)
      <4>2. t[k] \in Int /\ t[k + 1] = t[k] + 1
        <5>1. Base + lastPos[c] \in Int
          BY <1>2
        <5>2. \A b \in Int : b + k \in Int /\ b + (k + 1) = (b + k) + 1
          BY <4>1
        <5> QED
          BY <4>1, <5>1, <5>2
      <4> QED
        BY <4>2 DEF Follows
    <3> QED
      BY <3>2 DEF Chain
  <2>5. ASSUME NEW z \in Seq(Nat), z # <<>>, EndsAt(z, c) PROVE Follows(z[Len(z)], t[1])
    <3>1. z[Len(z)] \in Nat
      BY <2>5
    <3> QED
      BY <1>2, <2>1, <2>3, <2>5, <3>1 DEF EndsAt, Whole, Follows
  <2>6. /\ Chain(s \o t) /\ s \o t # <<>> /\ (s \o t)[Len(s \o t)] = t[Len(t)]
        /\ (s # <<>> => (s \o t)[1] = s[1]) /\ (s = <<>> => s \o t = t)
    <3>1. Chain(s) /\ (s # <<>> => EndsAt(s, c))
      BY DEF WireIsChain
    <3>2. s # <<>> => Follows(s[Len(s)], t[1])
      BY <1>2, <2>5, <3>1
    <3>3. s \o t # <<>>
      BY <1>2, <1>9, EmptySeq, ConcatProperties
    <3> QED
      BY <1>2, <1>9, <2>4, <3>1, <3>2, <3>3, Joined
  <2>7. WireIsChain'
    <3>1. Chain(wire[c])' /\ EndsAt(wire[c], c)'
      <4>1. Chain(wire[c])'
        BY <1>5, <2>1, <2>6 DEF Chain, Follows
      <4>2. wire'[c][Len(wire'[c])] = Base + lastPos'[c]
        BY <2>1, <2>3, <2>6
      <4>3. lastPos'[c] \in Nat
        BY <1>6 DEF TypeOK
      <4>4. EndsAt(wire[c], c)'
        BY <1>1, <1>2, <1>5, <4>2, <4>3 DEF EndsAt, Whole
      <4> QED
        BY <4>1, <4>4
    <3>2. ASSUME NEW d \in Conns \ {c}
          PROVE  Chain(wire[d])' /\ ((wire[d] # <<>>)' => EndsAt(wire[d], d)')
      BY <1>1, <1>3, <1>5, <2>1 DEF WireIsChain, Chain, Follows, EndsAt, Whole
    <3> QED
      BY <3>1, <3>2 DEF WireIsChain
  <2>8. ViewerIsChain'
    <3>1. Chain(logViewer)'
      BY <1>5 DEF ViewerIsChain, Chain, Follows
    <3>2. ASSUME logViewer # <<>>, conn = c
          PROVE  Follows(logViewer[Len(logViewer)], wire'[c][1]) /\ wire'[c] # <<>>
      <4>1. CASE s = <<>>
        BY <2>1, <2>5, <2>6, <3>2, <4>1, Types DEF ViewerIsChain
      <4>2. CASE s # <<>>
        BY <2>1, <2>6, <3>2, <4>2 DEF ViewerIsChain
      <4> QED
        BY <4>1, <4>2
    <3>3. ASSUME logViewer # <<>>, conn # c
          PROVE  /\ wire'[conn] = <<>> => EndsAt(logViewer, conn)'
                 /\ wire'[conn] # <<>> => Follows(logViewer[Len(logViewer)], wire'[conn][1])
      <4>1. conn \in Conns \ {c}
        BY <3>3 DEF ViewerIsChain, TypeOK
      <4> QED
        BY <1>1, <1>3, <1>5, <2>1, <3>3, <4>1 DEF ViewerIsChain, EndsAt, Whole
    <3> QED
      BY <1>5, <3>1, <3>2, <3>3 DEF ViewerIsChain, Follows
  <2>9. NothingIsSent'
    BY <1>3, <1>5 DEF NothingIsSent
  <2> QED
    BY <1>1, <1>6, <2>7, <2>8, <2>9
<1> QED
  BY <1>7, <1>8, <1>9

-----------------------------------------------------------------------------

(* What the page does.                                                     *)
LEMMA InitLogViewerStep ==
    ASSUME Inv, NEW c \in Conns, InitLogViewer(c), visits' \in 0 .. MaxVisits
    PROVE  Inv'
<1> USE DEF Inv, InitLogViewer, Goto, fileVars
<1>1. FileIsTail' /\ Base' = Base
  BY FileStays
<1>2. TypeOK'
  BY DEF TypeOK
<1>3. /\ wire'[c] = <<>> /\ conn' = c
      /\ \A d \in Conns \ {c} : /\ wire'[d] = wire[d] /\ lastPos'[d] = lastPos[d]
                                /\ pc'[d] = pc[d]
  BY DEF TypeOK
<1>4. WireIsChain'
  <2>1. Chain(wire[c])'
    BY <1>3 DEF Chain
  <2>2. \A d \in Conns \ {c} : Chain(wire[d])' /\ ((wire[d] # <<>>)' => EndsAt(wire[d], d)')
    BY <1>1, <1>3 DEF WireIsChain, Chain, Follows, EndsAt, Whole
  <2> QED
    BY <1>3, <2>1, <2>2 DEF WireIsChain
<1>5. ViewerIsChain'
  BY DEF ViewerIsChain, Chain
<1>6. NothingIsSent'
  BY <1>3 DEF NothingIsSent
<1> QED
  BY <1>1, <1>2, <1>4, <1>5, <1>6

LEMMA LeaveStep ==
    ASSUME Inv, Leave
    PROVE  Inv'
<1> USE DEF Inv, Leave, fileVars
<1>1. FileIsTail' /\ Base' = Base
  BY FileStays
<1>2. TypeOK'
  BY DEF TypeOK
<1>3. \A d \in Conns : conn' # d
  BY StreamAssumption
<1>4. WireIsChain'
  BY <1>1, <1>3 DEF WireIsChain, Chain, Follows, EndsAt, Whole
<1>5. ViewerIsChain' /\ NothingIsSent'
  BY DEF ViewerIsChain, Chain, NothingIsSent
<1> QED
  BY <1>1, <1>2, <1>4, <1>5

LEMMA ReceiveStep ==
    ASSUME Inv, Receive
    PROVE  Inv'
<1> USE DEF Inv, Receive, fileVars
<1> DEFINE s == logViewer
           t == wire[conn]
<1>1. FileIsTail' /\ Base' = Base
  BY FileStays
<1>2. /\ conn \in Conns /\ conn' = conn /\ t # <<>>
      /\ s \in Seq(Nat) /\ t \in Seq(Nat)
  BY Types DEF TypeOK
<1>3. TypeOK'
  <2>1. s \o t \in Seq(1 .. MaxLines)
    BY <1>2, Types DEF TypeOK
  <2> QED
    BY <2>1 DEF TypeOK
<1>4. wire'[conn] = <<>> /\ \A d \in Conns \ {conn} : wire'[d] = wire[d]
  BY <1>2 DEF TypeOK
<1>5. Chain(s) /\ Chain(t) /\ EndsAt(t, conn) /\ (s # <<>> => Follows(s[Len(s)], t[1]))
  BY <1>2 DEF WireIsChain, ViewerIsChain
<1>6. Chain(s \o t) /\ (s \o t)[Len(s \o t)] = t[Len(t)]
  BY <1>2, <1>5, Joined
<1>7. WireIsChain'
  <2>1. Chain(wire[conn])'
    BY <1>2, <1>4 DEF Chain
  <2>2. \A d \in Conns \ {conn} :
          Chain(wire[d])' /\ ((wire[d] # <<>>)' => EndsAt(wire[d], d)')
    BY <1>1, <1>4 DEF WireIsChain, Chain, Follows, EndsAt, Whole
  <2> QED
    BY <1>2, <1>4, <2>1, <2>2 DEF WireIsChain
<1>8. ViewerIsChain'
  <2>1. Chain(logViewer)'
    BY <1>6 DEF Chain, Follows
  <2>2. EndsAt(logViewer, conn)'
    BY <1>1, <1>5, <1>6 DEF EndsAt, Whole
  <2> QED
    BY <1>2, <1>4, <2>1, <2>2 DEF ViewerIsChain
<1>9. NothingIsSent'
  BY <1>2, <1>4 DEF NothingIsSent
<1> QED
  BY <1>1, <1>3, <1>7, <1>8, <1>9

-----------------------------------------------------------------------------

LEMMA InvNext ==
    ASSUME Inv, [Next]_vars
    PROVE  Inv'
<1>1. CASE \E c \in Conns : Visit(c) \/ Reconnect(c)
  <2>1. PICK c \in Conns : Visit(c) \/ Reconnect(c)
    BY <1>1
  <2>2. InitLogViewer(c)
    BY <2>1 DEF Visit, Reconnect
  <2>3. visits' \in 0 .. MaxVisits
    <3>1. visits \in 0 .. MaxVisits /\ MaxVisits \in Nat
      BY Types DEF Inv, TypeOK
    <3>2. CASE Visit(c)
      BY <3>1, <3>2 DEF Visit
    <3>3. CASE Reconnect(c)
      BY <3>1, <3>3 DEF Reconnect
    <3> QED
      BY <2>1, <3>2, <3>3
  <2> QED
    BY <2>2, <2>3, InitLogViewerStep
<1>2. CASE UNCHANGED vars
  BY <1>2 DEF Inv, TypeOK, FileIsTail, WireIsChain, ViewerIsChain, NothingIsSent, Chain,
              Follows, EndsAt, Whole, Base, vars, fileVars, connVars, pageVars
<1> QED
  BY <1>1, <1>2, LogLineStep, TruncateStep, LeaveStep, ReceiveStep, OpenLogStep, TickStep,
     ReadChunkStep, ContextDoneStep, WriteTimeoutStep, ReadTimeoutStep DEF Next, StreamLogs

LEMMA Invariance == Spec => []Inv
BY InvInit, InvNext, PTL DEF Spec

LEMMA InOrder ==
    ASSUME Inv
    PROVE  LinesInOrder /\ NoLineIsSkipped
BY DEF Inv, ViewerIsChain, Chain, Follows, LinesInOrder, NoLineIsSkipped

(* Every variable of LogStream keeps its type; a handler that is about to  *)
(* read has a position within what was ever logged.                        *)
THEOREM TypeCorrect == Spec => []TypeOK
<1>1. Inv => TypeOK
  BY DEF Inv
<1> QED
  BY <1>1, Invariance, PTL

(* initLogViewer and StreamLogs: through any number of cut connections and *)
(* emptied files, the viewer never shows a line again or before an earlier *)
(* one.                                                                    *)
THEOREM LinesAreOrdered == Spec => []LinesInOrder
<1>1. Inv => LinesInOrder
  BY InOrder
<1> QED
  BY <1>1, Invariance, PTL

(* StreamLogs' position: unless the file was emptied, the viewer leaves no *)
(* line out, though writes fail and handlers are not told.                 *)
THEOREM NothingSkipped == Spec => []NoLineIsSkipped
<1>1. Inv => NoLineIsSkipped
  BY InOrder
<1> QED
  BY <1>1, Invariance, PTL

-----------------------------------------------------------------------------
(* Which lines are shown: the safety half of LinesAreShown.                *)

Straight(s) == \A k \in 1 .. Len(s) : s[k] = s[1] + (k - 1)

(* It starts with the file's first line or TailLines or more from its end. *)
FromTail(s) == s[1] = 1 \/ s[1] + TailLines <= written + 1

(* What the viewer's handler has sent begins where the tail did when it    *)
(* opened the file; it does not wait with that still to be sent.           *)
Streaming(c) ==
    /\ Straight(logViewer) /\ Straight(wire[c])
    /\ pc[c] = "read" => lastPos[c] < Len(file)
    /\ logViewer = <<>> /\ wire[c] = <<>> /\ Whole(c) =>
         /\ pc[c] = "wait" => lastPos[c] = 0
         /\ pc[c] = "read" => lastPos[c] = 0 \/ lastPos[c] + TailLines <= written
    /\ logViewer # <<>> => FromTail(logViewer)
    /\ logViewer = <<>> /\ wire[c] # <<>> => FromTail(wire[c])

(* Inductive beside Inv, which says how lines follow one another and where *)
(* they end, not where they begin nor that there are any.                  *)
TailInv == truncations = 0 /\ conn # NoConn => Streaming(conn)

(* The page's handler has sent all there is, and the page has read it.     *)
CaughtUp(c) == pc[c] = "wait" /\ Whole(c) /\ lastPos[c] = Len(file) /\ wire[c] = <<>>

(* A page whose stream has caught up shows the last TailLines lines, or    *)
(* all lines when there are fewer, whatever was cut, missed and asked for  *)
(* again before, while nobody empties the file.                            *)
TailIsShown ==
    truncations = 0 /\ conn # NoConn /\ CaughtUp(conn) =>
        \A n \in 1 .. written : n + TailLines > written => n \in ToSet(logViewer)

LEMMA StraightJoined ==
    ASSUME NEW s \in Seq(Nat), NEW t \in Seq(Nat), Straight(s), Straight(t),
           s # <<>> /\ t # <<>> => t[1] = s[Len(s)] + 1
    PROVE  Straight(s \o t)
<1>1. /\ Len(s) \in Nat /\ Len(t) \in Nat /\ Len(s \o t) = Len(s) + Len(t)
      /\ \A k \in 1 .. Len(s) + Len(t) :
           (s \o t)[k] = IF k <= Len(s) THEN s[k] ELSE t[k - Len(s)]
  BY ConcatProperties
<1>2. (s = <<>> <=> Len(s) = 0) /\ (t = <<>> <=> Len(t) = 0)
  OBVIOUS
<1>3. (\A k \in 1 .. Len(s) : s[k] \in Nat) /\ (\A k \in 1 .. Len(t) : t[k] \in Nat)
  BY ElementOfSeq
<1>4. CASE Len(s) = 0
  <2>1. \A k \in 1 .. Len(s \o t) : (s \o t)[k] = t[k]
    BY <1>1, <1>4
  <2>2. ASSUME NEW k \in 1 .. Len(s \o t) PROVE (s \o t)[k] = (s \o t)[1] + (k - 1)
    <3>1. k \in 1 .. Len(t) /\ 1 \in 1 .. Len(s \o t)
      BY <1>1, <1>4
    <3> QED
      BY <2>1, <3>1 DEF Straight
  <2> QED
    BY <2>2 DEF Straight
<1>5. CASE Len(s) > 0
  <2> SUFFICES ASSUME NEW k \in 1 .. Len(s \o t)
               PROVE  (s \o t)[k] = (s \o t)[1] + (k - 1)
    BY DEF Straight
  <2>1. (s \o t)[1] = s[1] /\ s[1] \in Nat /\ s[Len(s)] = s[1] + (Len(s) - 1)
    BY <1>1, <1>3, <1>5 DEF Straight
  <2>2. CASE k <= Len(s)
    BY <1>1, <2>1, <2>2 DEF Straight
  <2>3. CASE k > Len(s)
    <3> DEFINE j == k - Len(s)
    <3>1. j \in 1 .. Len(t) /\ (s \o t)[k] = t[j] /\ t # <<>> /\ s # <<>>
      BY <1>1, <1>2, <1>5, <2>3
    <3>2. t[j] = t[1] + (j - 1) /\ t[1] = s[Len(s)] + 1
      BY <3>1 DEF Straight
    <3>3. t[1] \in Nat /\ s[Len(s)] \in Nat /\ j \in Nat /\ Len(s) \in Nat /\ k = j + Len(s)
      BY <1>1, <1>2, <1>3, <1>5, <3>1
    <3>4. t[j] = (s[1] + (Len(s) - 1)) + 1 + (j - 1)
      BY <2>1, <3>2
    <3> HIDE DEF j
    <3>5. \A a, m, i \in Nat : (a + (m - 1)) + 1 + (i - 1) = a + ((i + m) - 1)
      BY SMTT(30)
    <3>6. t[j] = s[1] + (k - 1)
      BY <2>1, <3>3, <3>4, <3>5
    <3> QED
      BY <2>1, <3>1, <3>6
  <2>4. k <= Len(s) \/ k > Len(s)
    BY <1>1
  <2> QED
    BY <2>2, <2>3, <2>4
<1> QED
  BY <1>1, <1>4, <1>5

(* A step that leaves the viewer's connection where it is.                 *)
LEMMA StreamStays ==
    ASSUME Inv, TailInv,
           UNCHANGED <<conn, logViewer>>, truncations' = 0 => truncations = 0,
           conn \in Conns =>
             /\ wire'[conn] = wire[conn] /\ pc'[conn] = pc[conn]
             /\ lastPos'[conn] = lastPos[conn] /\ (late[conn] => late'[conn]) /\ (gone[conn] => gone'[conn]),
           written' \in Nat, Len(file') \in Nat,
           written <= written', truncations' = 0 => Len(file) <= Len(file')
    PROVE  TailInv'
<1> SUFFICES ASSUME truncations' = 0, conn # NoConn PROVE Streaming(conn)'
  BY DEF TailInv
<1>1. conn \in Conns /\ Streaming(conn) /\ TypeOK
  BY DEF TailInv, Inv, TypeOK
<1>2. /\ written \in Nat /\ Len(file) \in Nat /\ lastPos[conn] \in Nat /\ TailLines \in Nat
      /\ \A k \in 1 .. Len(logViewer) : logViewer[k] \in Nat
      /\ \A k \in 1 .. Len(wire[conn]) : wire[conn][k] \in Nat
      /\ (logViewer # <<>> => 1 \in 1 .. Len(logViewer))
      /\ (wire[conn] # <<>> => 1 \in 1 .. Len(wire[conn]))
  <2>1. /\ written \in Nat /\ Len(file) \in Nat /\ lastPos[conn] \in Nat /\ TailLines \in Nat
        /\ \A k \in 1 .. Len(logViewer) : logViewer[k] \in Nat
        /\ Len(logViewer) \in Nat /\ Len(wire[conn]) \in Nat
        /\ (logViewer # <<>> => Len(logViewer) \in 1 .. Len(logViewer))
        /\ (wire[conn] # <<>> => Len(wire[conn]) \in 1 .. Len(wire[conn]))
    BY <1>1, Types
  <2>2. \A k \in 1 .. Len(wire[conn]) : wire[conn][k] \in Nat
    BY <1>1, Types
  <2> QED
    BY <2>1, <2>2
<1>3. /\ logViewer # <<>> /\ FromTail(logViewer) => FromTail(logViewer)'
      /\ wire[conn] # <<>> /\ FromTail(wire[conn]) => FromTail(wire[conn])'
  <2>1. logViewer' = logViewer /\ wire'[conn] = wire[conn] /\ written' >= written
    BY <1>1
  <2>2. ASSUME NEW m \in Nat PROVE m + TailLines <= written + 1 => m + TailLines <= written' + 1
    BY <1>2, <2>1
  <2>3. /\ logViewer # <<>> => logViewer[1] \in Nat
        /\ wire[conn] # <<>> => wire[conn][1] \in Nat
    BY <1>2
  <2> QED
    BY <2>1, <2>2, <2>3 DEF FromTail
<1>4. /\ pc[conn] = "read" => lastPos[conn] < Len(file')
      /\ lastPos[conn] + TailLines <= written => lastPos[conn] + TailLines <= written'
  BY <1>1, <1>2 DEF Streaming, Whole
<1> QED
  BY <1>1, <1>3, <1>4 DEF Streaming, Whole, Straight

LEMMA ReadShows ==
    ASSUME Inv, Inv', TailInv, NEW c \in Conns, ReadChunk(c), conn = c, truncations = 0
    PROVE  Streaming(c)'
<1> DEFINE s == wire[c]
           t == Chunk(c)
<1>0. TypeOK /\ FileIsTail /\ WireIsChain /\ ViewerIsChain
  BY DEF Inv
<1>1. /\ pc[c] = "read" /\ pc'[c] = "wait" /\ lastPos'[c] = lastPos[c] + Len(t)
      /\ logViewer' = logViewer /\ written' = written /\ truncations' = truncations
      /\ IF t # <<>> /\ (late[c] \/ conn # c)
         THEN gone'[c] /\ wire' = wire
         ELSE wire'[c] = s \o t /\ gone' = gone
      /\ late' = late /\ conn' = conn
  BY <1>0 DEF ReadChunk, Goto, NextPos, TypeOK, fileVars, pageVars
<1>2. /\ s \in Seq(Nat) /\ t \in Seq(Nat) /\ Len(t) \in Nat /\ lastPos[c] \in Nat
      /\ written \in Nat /\ TailLines \in Nat /\ Base = 0 /\ Len(file) = written
      /\ \A k \in 1 .. Len(t) : t[k] = Base + lastPos[c] + k
  BY <1>0, ChunkIs, Types DEF FileIsTail, Base
<1>3. Streaming(c) /\ lastPos[c] < Len(file) /\ c # NoConn
  BY <1>1, StreamAssumption DEF TailInv, Streaming, Whole
<1>4. CASE wire' = wire /\ gone'[c] /\ late[c]
  <2>1. FromTail(logViewer)' = FromTail(logViewer) /\ FromTail(wire[c])' = FromTail(wire[c])
    BY <1>1, <1>4 DEF FromTail
  <2> QED
    BY <1>1, <1>3, <1>4, <2>1 DEF Streaming, Whole, Straight
<1> DEFINE p == lastPos[c]
<1>5. CASE wire'[c] = s \o t
  <2>1. Len(t) >= 1
    <3>1. Buf \in Nat \ {0}
      BY <1>0, Types
    <3>2. file \in Seq(1 .. MaxLines)
      BY <1>0 DEF TypeOK
    <3> DEFINE last == IF Len(file) > p + Buf THEN p + Buf ELSE Len(file)
    <3>3. last \in Nat /\ p + 1 <= last /\ last <= Len(file)
      BY <1>2, <1>3, <3>1
    <3>4. t = SubSeq(file, p + 1, last)
      BY DEF Chunk
    <3> HIDE DEF last, t
    <3>5. Len(t) = last - (p + 1) + 1
      <4>1. \A k \in p + 1 .. last : file[k] \in 1 .. MaxLines
        <5>1. ASSUME NEW k \in p + 1 .. last PROVE k \in 1 .. Len(file)
          BY <1>2, <3>3
        <5> QED
          BY <3>2, <5>1, ElementOfSeq
      <4> QED
        BY <1>2, <3>3, <3>4, <4>1, SubSeqProperties
    <3> QED
      BY <1>2, <3>3, <3>5
  <2> HIDE DEF t
  <2>2. t[1] = p + 1 /\ t # <<>>
    BY <1>2, <2>1, EmptySeq
  <2>3. Straight(t)
    <3>1. ASSUME NEW k \in 1 .. Len(t) PROVE t[k] = t[1] + (k - 1)
      <4>1. t[k] = 0 + p + k
        BY <1>2
      <4>2. k \in Nat /\ p \in Nat
        BY <1>2
      <4> HIDE DEF p
      <4> QED
        BY <2>2, <4>1, <4>2
    <3> QED
      BY <3>1 DEF Straight
  <2>4. Whole(c)
    BY <1>1, <1>5, <2>2, <1>3 DEF Whole
  <2>5. s # <<>> => s[Len(s)] = p
    BY <1>0, <2>4 DEF WireIsChain, EndsAt, Whole, p, Inv
  <2>6. Straight(s \o t)
    BY <1>2, <1>3, <2>2, <2>3, <2>5, StraightJoined DEF Streaming, Whole
  <2>7. s \o t # <<>> /\ (s # <<>> => (s \o t)[1] = s[1]) /\ (s = <<>> => s \o t = t)
    <3>1. Len(s) \in Nat /\ (s = <<>> <=> Len(s) = 0)
      BY <1>2
    <3>2. Len(s \o t) = Len(s) + Len(t)
      BY <1>2, ConcatProperties
    <3>3. s # <<>> => (s \o t)[1] = s[1]
      BY <1>2, <2>1, <3>1, ConcatProperties
    <3>4. s \o t # <<>>
      BY <1>2, <2>1, <3>1, <3>2
    <3> QED
      BY <1>2, <3>3, <3>4, ConcatEmptySeq
  <2>8. logViewer = <<>> => FromTail(s \o t)
    <3>1. CASE s = <<>>
      BY <1>1, <1>2, <1>3, <2>2, <2>4, <2>7, <3>1 DEF Streaming, Whole, FromTail, p
    <3>2. CASE s # <<>>
      BY <1>3, <2>7, <3>2 DEF Streaming, Whole, FromTail
    <3> QED
      BY <3>1, <3>2
  <2>9. FromTail(logViewer)' = FromTail(logViewer) /\ FromTail(s \o t) = (FromTail(wire[c])')
    BY <1>1, <1>5 DEF FromTail
  <2> QED
    BY <1>1, <1>3, <1>5, <2>6, <2>7, <2>8, <2>9 DEF Streaming, Whole, Straight
<1> QED
  BY <1>1, <1>4, <1>5

LEMMA ReceiveShows ==
    ASSUME Inv, TailInv, Receive, truncations = 0
    PROVE  Streaming(conn)'
<1> DEFINE s == logViewer
           t == wire[conn]
<1>1. /\ conn \in Conns /\ conn # NoConn /\ TypeOK /\ Streaming(conn) /\ t # <<>>
      /\ ViewerIsChain
  BY DEF Receive, Inv, TypeOK, TailInv
<1>2. s \in Seq(Nat) /\ t \in Seq(Nat)
  BY <1>1, Types
<1>3. /\ logViewer' = s \o t /\ wire'[conn] = <<>> /\ conn' = conn
      /\ UNCHANGED <<pc, lastPos, late, gone, file, written, truncations>>
  BY <1>1 DEF Receive, TypeOK, fileVars
<1>4. s # <<>> => t[1] = s[Len(s)] + 1
  BY <1>1 DEF ViewerIsChain, Follows
<1>5. Straight(s \o t)
  BY <1>1, <1>2, <1>4, StraightJoined DEF Streaming, Whole
<1>6. s \o t # <<>> /\ (s # <<>> => (s \o t)[1] = s[1]) /\ (s = <<>> => s \o t = t)
  <2>1. Len(s) \in Nat /\ Len(t) \in Nat /\ Len(t) # 0 /\ (s = <<>> <=> Len(s) = 0)
    BY <1>1, <1>2, EmptySeq
  <2>2. Len(s \o t) = Len(s) + Len(t)
    BY <1>2, ConcatProperties
  <2>3. s # <<>> => (s \o t)[1] = s[1]
    BY <1>2, <2>1, ConcatProperties
  <2>4. s \o t # <<>>
    BY <1>2, <2>1, <2>2
  <2> QED
    BY <1>2, <2>3, <2>4, ConcatEmptySeq
<1>7. FromTail(s \o t)
  BY <1>1, <1>6 DEF Streaming, Whole, FromTail
<1>8. FromTail(logViewer)' = FromTail(s \o t)
  BY <1>3 DEF FromTail
<1>9. Straight(<<>>)
  BY DEF Straight
<1> QED
  BY <1>1, <1>3, <1>5, <1>6, <1>7, <1>8, <1>9 DEF Streaming, Whole, Straight

LEMMA TailNext ==
    ASSUME Inv, Inv', TailInv, [Next]_vars
    PROVE  TailInv'
<1>0. /\ TypeOK /\ TypeOK' /\ written \in Nat /\ written' \in Nat /\ truncations \in Nat
      /\ Len(file) \in Nat /\ Len(file') \in Nat /\ conn \in Conns \cup {NoConn}
      /\ NoConn \notin Conns
  <2>1. TypeOK /\ TypeOK'
    BY DEF Inv
  <2>2. written' \in Nat /\ Len(file') \in Nat
    BY <2>1, StreamAssumption DEF TypeOK
  <2> QED
    BY <2>1, <2>2, Types, StreamAssumption DEF TypeOK
<1>1. CASE LogLine
  <2>1. Len(file') = Len(file) + 1 /\ written' = written + 1
    BY <1>0, <1>1, AppendProperties DEF LogLine, TypeOK
  <2> QED
    BY <1>0, <1>1, <2>1, StreamStays DEF LogLine, connVars, pageVars
<1>2. CASE Truncate
  BY <1>0, <1>2 DEF Truncate, TailInv
<1>3. CASE Leave
  BY <1>3 DEF Leave, TailInv
<1>4. CASE Receive
  BY <1>0, <1>4, ReceiveShows DEF Receive, TailInv, fileVars
<1>5. ASSUME NEW c \in Conns, OpenLog(c) PROVE TailInv'
  <2>1. CASE conn # c
    BY <1>0, <1>5, <2>1, StreamStays DEF OpenLog, Goto, fileVars, pageVars, TypeOK
  <2>2. CASE conn = c
    <3> SUFFICES ASSUME truncations = 0 PROVE Streaming(c)'
      BY <1>0, <1>5, <2>2 DEF TailInv, OpenLog, pageVars, fileVars
    <3>1. /\ wire' = wire /\ logViewer' = logViewer /\ wire[c] = <<>> /\ logViewer = <<>>
          /\ pc'[c] = IF file = <<>> THEN "wait" ELSE "read"
          /\ lastPos'[c] = StartPos /\ UNCHANGED <<file, written>>
      BY <1>0, <1>5, <2>2 DEF OpenLog, Goto, pageVars, fileVars, Inv, NothingIsSent, TypeOK
    <3>2. Len(file) = written /\ TailLines \in 1 .. Buf /\ Buf \in Nat
          /\ (file = <<>> <=> Len(file) = 0)
      BY <1>0, StreamAssumption, EmptySeq DEF Inv, FileIsTail, TypeOK
    <3>3. /\ file = <<>> => StartPos = 0
          /\ file # <<>> => StartPos < Len(file)
          /\ StartPos = 0 \/ StartPos + TailLines <= written
      BY <1>0, <3>2 DEF StartPos
    <3> QED
      BY <3>1, <3>3 DEF Streaming, Whole, Straight
  <2> QED
    BY <2>1, <2>2
<1>6. ASSUME NEW c \in Conns, Tick(c) PROVE TailInv'
  <2>1. CASE conn # c
    BY <1>0, <1>6, <2>1, StreamStays DEF Tick, Goto, fileVars, pageVars, TypeOK
  <2>2. CASE conn = c
    <3>1. /\ UNCHANGED <<wire, late, gone, lastPos, file, written, truncations, conn, logViewer>>
          /\ pc[c] = "wait" /\ pc'[c] = "read" /\ lastPos[c] < Len(file)
      <4>1. lastPos[c] \in Nat /\ Len(file) > lastPos[c]
        BY <1>0, <1>6, Types DEF Tick
      <4> QED
        BY <1>0, <1>6, <4>1 DEF Tick, Goto, fileVars, pageVars, TypeOK
    <3> QED
      BY <2>2, <3>1 DEF TailInv, Streaming, Whole, Straight, FromTail
  <2> QED
    BY <2>1, <2>2
<1>7. ASSUME NEW c \in Conns, ReadChunk(c) PROVE TailInv'
  <2>1. UNCHANGED <<conn, logViewer, late, file, written, truncations>>
    BY <1>7 DEF ReadChunk, fileVars, pageVars
  <2>2. CASE conn # c
    <3>1. conn \in Conns =>
             /\ wire'[conn] = wire[conn] /\ pc'[conn] = pc[conn]
             /\ lastPos'[conn] = lastPos[conn] /\ gone'[conn] = gone[conn]
      <4> SUFFICES ASSUME conn \in Conns
                   PROVE  /\ wire'[conn] = wire[conn] /\ pc'[conn] = pc[conn]
                          /\ lastPos'[conn] = lastPos[conn] /\ gone'[conn] = gone[conn]
        OBVIOUS
      <4>1. pc'[conn] = pc[conn] /\ lastPos'[conn] = lastPos[conn]
        BY <1>0, <1>7, <2>2 DEF ReadChunk, Goto, TypeOK
      <4>2. gone'[conn] = gone[conn]
        BY <1>0, <1>7, <2>2 DEF ReadChunk, TypeOK
      <4>3. wire'[conn] = wire[conn]
        BY <1>0, <1>7, <2>2 DEF ReadChunk, TypeOK
      <4> QED
        BY <4>1, <4>2, <4>3
    <3> QED
      BY <1>0, <2>1, <3>1, StreamStays
  <2>3. CASE conn = c
    BY <1>7, <2>1, <2>3, ReadShows DEF TailInv
  <2> QED
    BY <2>2, <2>3
<1>8. ASSUME NEW c \in Conns, ContextDone(c) PROVE TailInv'
  <2>1. UNCHANGED <<conn, logViewer, wire, late, gone, lastPos, file, written, truncations>>
        /\ pc'[c] = "free" /\ \A d \in Conns \ {c} : pc'[d] = pc[d]
    BY <1>0, <1>8 DEF ContextDone, Goto, fileVars, pageVars, TypeOK
  <2>2. CASE conn # c
    BY <1>0, <2>1, <2>2, StreamStays
  <2>3. CASE conn = c
    BY <2>1, <2>3 DEF TailInv, Streaming, Whole, Straight, FromTail
  <2> QED
    BY <2>2, <2>3
<1>9. ASSUME NEW c \in Conns, WriteTimeout(c) \/ ReadTimeout(c) PROVE TailInv'
  <2>1. \A d \in Conns : (late[d] => late'[d]) /\ (gone[d] => gone'[d])
    BY <1>0, <1>9 DEF WriteTimeout, ReadTimeout, TypeOK
  <2> QED
    BY <1>0, <1>9, <2>1, StreamStays DEF WriteTimeout, ReadTimeout, fileVars, pageVars
<1>10. ASSUME NEW c \in Conns, Visit(c) \/ Reconnect(c) PROVE TailInv'
  <2>1. /\ conn' = c /\ logViewer' = <<>> /\ wire'[c] = <<>> /\ pc'[c] = "open"
    BY <1>0, <1>10 DEF Visit, Reconnect, InitLogViewer, Goto, TypeOK
  <2> QED
    BY <2>1 DEF TailInv, Streaming, Whole, Straight
<1>11. CASE UNCHANGED vars
  BY <1>0, <1>11, StreamStays DEF vars, fileVars, connVars, pageVars
<1> QED
  BY <1>1, <1>2, <1>3, <1>4, <1>5, <1>6, <1>7, <1>8, <1>9, <1>10, <1>11 DEF Next, StreamLogs

LEMMA TailInvariance == Spec => []TailInv
<1>1. Init => TailInv
  BY DEF Init, TailInv
<1>2. Inv /\ Inv' /\ TailInv /\ [Next]_vars => TailInv'
  BY TailNext
<1> QED
  BY <1>1, <1>2, Invariance, PTL DEF Spec

(* StreamLogs and the page: a viewer that has caught up shows the last     *)
(* tailLines lines and leaves none of them out, for any tail and buffer,   *)
(* however often the server has cut the connection.                        *)
THEOREM TailShown == Spec => []TailIsShown
<1>1. ASSUME Inv, TailInv, truncations = 0, conn # NoConn, CaughtUp(conn),
             NEW n \in 1 .. written, n + TailLines > written
      PROVE  n \in ToSet(logViewer)
  <2>1. /\ conn \in Conns /\ Streaming(conn) /\ TypeOK /\ ViewerIsChain
        /\ Len(file) = written
    BY <1>1 DEF Inv, TailInv, TypeOK, FileIsTail
  <2>2. /\ logViewer \in Seq(Nat) /\ Len(logViewer) \in Nat /\ written \in Nat
        /\ TailLines \in Nat /\ \A k \in 1 .. Len(logViewer) : logViewer[k] \in Nat
    BY <2>1, Types
  <2>3. logViewer # <<>>
    BY <1>1, <2>1, <2>2 DEF CaughtUp, Streaming, Whole
  <2>4. Len(logViewer) \in 1 .. Len(logViewer) /\ 1 \in 1 .. Len(logViewer)
    BY <2>2, <2>3, EmptySeq
  <2>5. logViewer[Len(logViewer)] = written
    BY <1>1, <2>1, <2>3 DEF ViewerIsChain, CaughtUp, EndsAt, Whole
  <2>6. logViewer[Len(logViewer)] = logViewer[1] + (Len(logViewer) - 1)
    BY <2>1, <2>4 DEF Streaming, Whole, Straight
  <2>7. logViewer[1] <= n
    BY <1>1, <2>1, <2>2, <2>3, <2>4 DEF Streaming, Whole, FromTail
  <2> DEFINE k == n - logViewer[1] + 1
  <2>8. k \in 1 .. Len(logViewer)
    BY <2>2, <2>4, <2>5, <2>6, <2>7
  <2>9. logViewer[k] = logViewer[1] + (k - 1)
    BY <2>1, <2>8 DEF Streaming, Whole, Straight
  <2>10. logViewer[k] = n
    BY <2>2, <2>4, <2>9
  <2> HIDE DEF k
  <2> QED
    BY <2>8, <2>10 DEF ToSet
<1>2. Inv /\ TailInv => TailIsShown
  BY <1>1 DEF TailIsShown
<1> QED
  BY <1>2, Invariance, TailInvariance, PTL

=============================================================================
