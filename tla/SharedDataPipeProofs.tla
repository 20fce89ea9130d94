------------------------ MODULE SharedDataPipeProofs ------------------------
(***************************************************************************)
(* SharedDataPipe for pipes, buffers and data of any size.                 *)
(***************************************************************************)
EXTENDS SharedDataPipe, Integers, SequenceTheorems, TLAPS

Reader == [at : {"magic", "size", "data", "lost", "spin", "exited"},
           skipped : Nat, need : Nat, got : Seq(Cells)]

\* Whoever has the lock has something left to write.
Busy == wpc # "free" => job.left # 0

-----------------------------------------------------------------------------
(* Sequences of cells.                                                     *)

LEMMA UptoType ==
    ASSUME NEW s \in Seq(Cells), NEW n \in Nat
    PROVE  Upto(s, n) \in Seq(Cells) /\ Len(Upto(s, n)) <= n /\ Len(Upto(s, n)) <= Len(s)
<1>1. CASE n < Len(s)
  BY <1>1 DEF Upto
<1>2. CASE ~(n < Len(s))
  BY <1>2 DEF Upto
<1> QED
  BY <1>1, <1>2

LEMMA FromType ==
    ASSUME NEW s \in Seq(Cells), NEW n \in Nat, n <= Len(s)
    PROVE  From(s, n) \in Seq(Cells)
BY DEF From

LEMMA MessageType ==
    ASSUME NEW v \in Versions
    PROVE  Header(v) \in Seq(Cells) /\ Data(v) \in Seq(Cells)
<1>1. Size[v] \in Nat
  BY PipeAssumption DEF Versions
<1>2. <<"magic", 0>> \in Cells /\ <<"size", Size[v]>> \in Cells /\ <<"data", v>> \in Cells
  BY <1>1 DEF Cells
<1>3. Header(v) \in Seq(Cells)
  BY <1>2 DEF Header
<1>4. Data(v) \in Seq(Cells)
  <2>1. \A n \in Nat, c \in Cells : [i \in 1..n |-> c] \in Seq(Cells)
    OBVIOUS
  <2> QED
    BY <1>1, <1>2, <2>1 DEF Data
<1> QED
  BY <1>3, <1>4

\* Whatever is written and however little room there is, neither the pipe nor
\* the buffer holds more than it can, and both hold cells.
LEMMA WriteType ==
    ASSUME TypeOK, NEW x \in Seq(Cells)
    PROVE  /\ Write(x).pipe \in Seq(Cells) /\ Len(Write(x).pipe) <= PipeCap
           /\ Write(x).buf \in Seq(Cells) /\ Len(Write(x).buf) <= BufCap
           /\ Write(x).ok \in BOOLEAN
<1> DEFINE part == Upto(x, BufCap - Len(buf))
           direct == IF Len(x) > BufCap THEN Upto(x, Room - Len(buf)) ELSE <<>>
           rest == From(x, Len(direct))
<1>0. /\ PipeCap \in Nat /\ BufCap \in Nat
      /\ pipe \in Seq(Cells) /\ Len(pipe) <= PipeCap /\ Len(pipe) \in Nat
      /\ buf \in Seq(Cells) /\ Len(buf) <= BufCap /\ Len(buf) \in Nat
      /\ Len(x) \in Nat
  BY PipeAssumption DEF TypeOK
<1>1. Room \in Nat /\ Len(pipe) + Room = PipeCap
  BY <1>0 DEF Room
<1>2. CASE Len(buf) + Len(x) <= BufCap
  BY <1>0, <1>2 DEF Write
<1>3. CASE ~(Len(buf) + Len(x) <= BufCap) /\ Room < Len(buf)
  <2>1. part \in Seq(Cells) /\ Len(part) <= BufCap - Len(buf)
    BY <1>0, UptoType
  <2>2. Write(x) = [pipe |-> pipe, buf |-> buf \o part, ok |-> FALSE]
    BY <1>3 DEF Write
  <2> HIDE DEF part
  <2> QED
    BY <1>0, <2>1, <2>2
<1>4. CASE ~(Len(buf) + Len(x) <= BufCap) /\ ~(Room < Len(buf))
  <2>1. direct \in Seq(Cells) /\ Len(direct) <= Room - Len(buf) /\ Len(direct) <= Len(x)
    BY <1>0, <1>1, <1>4, UptoType
  <2>2. rest \in Seq(Cells)
    BY <2>1, FromType
  <2>3. Upto(rest, BufCap) \in Seq(Cells) /\ Len(Upto(rest, BufCap)) <= BufCap
    BY <1>0, <2>2, UptoType
  <2>4. Write(x) = [pipe |-> pipe \o buf \o direct, buf |-> Upto(rest, BufCap),
                    ok |-> Len(rest) <= BufCap]
    BY <1>4 DEF Write
  <2> HIDE DEF direct, rest
  <2>5. pipe \o buf \o direct \in Seq(Cells) /\ Len(pipe \o buf \o direct) <= PipeCap
    BY <1>0, <1>1, <2>1
  <2> QED
    BY <2>3, <2>4, <2>5
<1> QED
  BY <1>2, <1>3, <1>4

-----------------------------------------------------------------------------
(* The steps.                                                              *)

\* Before the master is gone a flag is heard, while the thread is sending too:
\* a flag set then comes with an item in the queue.
Heard == flagged => notified \/ rpc = "woken"

Inv == TypeOK /\ Busy /\ Heard

LEMMA EndUpdateType ==
    ASSUME TypeOK, job.left # 0, EndUpdate
    PROVE  /\ job' \in [ver : Versions, left : 0..2]
           /\ wpc' \in {"free", "header", "data", "flush"}
           /\ rpc' \in {"wait", "woken", "sending"}
           /\ Busy'
           /\ rpc = "woken" => rpc' = "woken"
<1>1. job \in [ver : Versions, left : 0..2] /\ rpc \in {"wait", "woken", "sending"}
  BY DEF TypeOK
<1>2. job.left \in 1..2
  BY <1>1
<1>3. job' \in [ver : Versions, left : 0..2] /\ job'.left = job.left - 1
  BY <1>1, <1>2 DEF EndUpdate
<1> QED
  BY <1>1, <1>2, <1>3 DEF EndUpdate, Busy

LEMMA FlagIfHeard ==
    ASSUME TypeOK, NEW b \in BOOLEAN, FlagIf(b)
    PROVE  /\ flagged' \in BOOLEAN /\ notified' \in BOOLEAN
           /\ flagged' => flagged \/ notified'
           /\ notified => notified'
BY Zenon DEF FlagIf, TypeOK

LEMMA StartUpdateInv == ASSUME Inv, StartUpdate PROVE Inv'
<1> USE DEF Inv
<1>1. latest + 1 \in Versions
  BY PipeAssumption DEF StartUpdate, TypeOK, Versions
<1>2. job' \in [ver : Versions, left : 0..2] /\ job'.left = 1
  BY <1>1 DEF StartUpdate
<1>3. TypeOK'
  BY <1>1, <1>2 DEF StartUpdate, TypeOK
<1> QED
  BY <1>2, <1>3 DEF StartUpdate, Busy, Heard

LEMMA WriteHeaderInv == ASSUME Inv, WriteHeader PROVE Inv'
<1> USE DEF Inv
<1> DEFINE w == Write(Header(job.ver))
<1>1. job.ver \in Versions
  BY DEF TypeOK
<1>2. /\ w.pipe \in Seq(Cells) /\ Len(w.pipe) <= PipeCap
      /\ w.buf \in Seq(Cells) /\ Len(w.buf) <= BufCap
      /\ w.ok \in BOOLEAN
  BY <1>1, MessageType, WriteType
<1>3. /\ pipe' = w.pipe /\ buf' = w.buf
      /\ wpc = "header"
      /\ refused' = (refused \/ ~w.ok)
      /\ IF w.ok THEN wpc' = "data" /\ UNCHANGED <<job, rpc>> ELSE EndUpdate
      /\ UNCHANGED <<latest, flagged, notified, reader, have, closed>>
  BY DEF WriteHeader, Wrote
<1> HIDE DEF w
<1>4. refused' \in BOOLEAN
  BY <1>3, Zenon DEF TypeOK
<1>5. job.left # 0
  BY <1>3 DEF Busy
<1>6. /\ job' \in [ver : Versions, left : 0..2]
      /\ wpc' \in {"free", "header", "data", "flush"}
      /\ rpc' \in {"wait", "woken", "sending"}
      /\ Busy'
      /\ rpc = "woken" => rpc' = "woken"
  <2>1. CASE w.ok
    BY <1>3, <1>5, <2>1 DEF TypeOK, Busy
  <2>2. CASE ~w.ok
    BY <1>3, <1>5, <2>2, EndUpdateType
  <2> QED
    BY <2>1, <2>2
<1>7. TypeOK'
  BY <1>2, <1>3, <1>4, <1>6 DEF TypeOK
<1> QED
  BY <1>3, <1>6, <1>7 DEF Heard

LEMMA WriteDataInv == ASSUME Inv, WriteData PROVE Inv'
<1> USE DEF Inv
<1> DEFINE w == Write(Data(job.ver))
<1>1. job.ver \in Versions
  BY DEF TypeOK
<1>2. /\ w.pipe \in Seq(Cells) /\ Len(w.pipe) <= PipeCap
      /\ w.buf \in Seq(Cells) /\ Len(w.buf) <= BufCap
      /\ (~w.ok) \in BOOLEAN
  BY <1>1, MessageType, WriteType
<1>3. /\ pipe' = w.pipe /\ buf' = w.buf
      /\ wpc = "data"
      /\ FlagIf(~w.ok)
      /\ IF w.ok THEN wpc' = "flush" /\ UNCHANGED <<job, rpc>> ELSE EndUpdate
      /\ UNCHANGED <<latest, reader, have, refused, closed>>
  BY DEF WriteData, Wrote
<1> HIDE DEF w
<1>4. /\ flagged' \in BOOLEAN /\ notified' \in BOOLEAN
      /\ flagged' => flagged \/ notified'
      /\ notified => notified'
  BY <1>2, <1>3, FlagIfHeard
<1>5. job.left # 0
  BY <1>3 DEF Busy
<1>6. /\ job' \in [ver : Versions, left : 0..2]
      /\ wpc' \in {"free", "header", "data", "flush"}
      /\ rpc' \in {"wait", "woken", "sending"}
      /\ Busy'
      /\ rpc = "woken" => rpc' = "woken"
  <2>1. CASE w.ok
    BY <1>3, <1>5, <2>1 DEF TypeOK, Busy
  <2>2. CASE ~w.ok
    BY <1>3, <1>5, <2>2, EndUpdateType
  <2> QED
    BY <2>1, <2>2
<1>7. TypeOK'
  BY <1>2, <1>3, <1>4, <1>6 DEF TypeOK
<1> QED
  BY <1>4, <1>6, <1>7 DEF Heard

LEMMA FlushInv == ASSUME Inv, Flush PROVE Inv'
<1> USE DEF Inv
<1> DEFINE ok == Len(buf) <= Room
<1>1. /\ wpc = "flush"
      /\ IF ok THEN pipe' = pipe \o buf /\ buf' = <<>> ELSE UNCHANGED <<pipe, buf>>
      /\ FlagIf(~ok)
      /\ EndUpdate
      /\ UNCHANGED <<latest, reader, have, refused, closed>>
  BY DEF Flush
<1>2. /\ pipe' \in Seq(Cells) /\ Len(pipe') <= PipeCap
      /\ buf' \in Seq(Cells) /\ Len(buf') <= BufCap
  <2>1. /\ pipe \in Seq(Cells) /\ Len(pipe) \in Nat /\ Len(pipe) <= PipeCap
        /\ buf \in Seq(Cells) /\ Len(buf) \in Nat /\ Len(buf) <= BufCap
        /\ PipeCap \in Nat /\ BufCap \in Nat
    BY PipeAssumption DEF TypeOK
  <2>2. CASE ok
    <3>1. pipe' = pipe \o buf /\ buf' = <<>>
      BY <1>1, <2>2
    <3>2. Len(pipe \o buf) = Len(pipe) + Len(buf) /\ pipe \o buf \in Seq(Cells)
      BY <2>1
    <3>3. Len(pipe) + Len(buf) <= PipeCap
      BY <2>1, <2>2 DEF Room
    <3> QED
      BY <2>1, <3>1, <3>2, <3>3
  <2>3. CASE ~ok
    BY <1>1, <2>1, <2>3
  <2> QED
    BY <2>2, <2>3
<1>3. /\ flagged' \in BOOLEAN /\ notified' \in BOOLEAN
      /\ flagged' => flagged \/ notified'
      /\ notified => notified'
  <2>1. (~ok) \in BOOLEAN
    BY Zenon
  <2> QED
    BY <1>1, <2>1, FlagIfHeard
<1>4. job.left # 0
  BY <1>1 DEF Busy
<1>5. /\ job' \in [ver : Versions, left : 0..2]
      /\ wpc' \in {"free", "header", "data", "flush"}
      /\ rpc' \in {"wait", "woken", "sending"}
      /\ Busy'
      /\ rpc = "woken" => rpc' = "woken"
  BY <1>1, <1>4, EndUpdateType
<1>6. TypeOK'
  BY <1>1, <1>2, <1>3, <1>5 DEF TypeOK
<1> QED
  BY <1>3, <1>5, <1>6 DEF Heard

LEMMA ResendInv == ASSUME Inv, Resend PROVE Inv'
<1> USE DEF Inv
<1>1. CASE ResendGet
  BY <1>1 DEF ResendGet, TypeOK, Busy, Heard
<1>2. CASE ResendStart
  <2>1. job' \in [ver : Versions, left : 0..2] /\ (flagged => job'.left = 2)
    BY <1>2 DEF ResendStart, TypeOK, ResendData, Copies
  <2>2. TypeOK'
    BY <1>2, <2>1 DEF ResendStart, TypeOK
  <2> QED
    BY <1>2, <2>1, <2>2 DEF ResendStart, Busy, Heard
<1> QED
  BY <1>1, <1>2 DEF Resend

LEMMA ReadInv == ASSUME Inv, Read PROVE Inv'
<1> USE DEF Inv
<1>0. reader \in Reader /\ have \in Versions /\ pipe \in Seq(Cells) /\ Len(pipe) <= PipeCap
  BY DEF TypeOK, Reader
<1>1. CASE ReadEof
  <2>1. reader' \in Reader
    BY <1>0, <1>1 DEF ReadEof, Reader
  <2> QED
    BY <1>1, <2>1 DEF ReadEof, TypeOK, Busy, Heard, writerVars, Reader
<1>2. CASE ReadCell
  <2> DEFINE c == Head(pipe)
             got == Append(reader.got, c)
  <2>1. pipe # <<>> /\ pipe' = Tail(pipe)
    BY <1>2 DEF ReadCell
  <2>2. c \in Cells /\ pipe' \in Seq(Cells) /\ Len(pipe') <= PipeCap
    <3>1. Len(pipe) \in Nat /\ Len(pipe) > 0 /\ Len(pipe') = Len(pipe) - 1
      BY <1>0, <2>1
    <3> QED
      BY <1>0, <2>1, <3>1, PipeAssumption
  <2>3. reader.got \in Seq(Cells)
    BY <1>0 DEF Reader
  <2>4. got \in Seq(Cells)
    BY <2>2, <2>3
  <2>5. Seek(0) \in Reader /\ SeekOn \in Reader
    <3>1. <<>> \in Seq(Cells)
      OBVIOUS
    <3>2. \A n \in Nat : Seek(n) \in Reader
      BY <3>1 DEF Seek, Reader
    <3>3. reader.skipped + 1 \in Nat /\ [reader EXCEPT !.at = "spin"] \in Reader
      BY <1>0 DEF Reader
    <3> QED
      BY <3>2, <3>3 DEF SeekOn
  <2>6. c[1] = "size" => c[2] \in Nat
    BY <2>2 DEF Cells
  <2> HIDE DEF c, got
  <2>7. reader' \in Reader /\ have' \in Versions
    <3>1. \/ reader' = [Seek(0) EXCEPT !.at = "size"] /\ have' = have
          \/ reader' = SeekOn /\ have' = have
          \/ c[1] = "size" /\ reader' = [Seek(0) EXCEPT !.at = "data", !.need = c[2]] /\ have' = have
          \/ reader' = [Seek(0) EXCEPT !.at = "lost"] /\ have' = have
          \/ reader' = [reader EXCEPT !.got = got] /\ have' = have
          \/ reader' = Seek(0) /\ have' \in (IF Loaded(got) = {} THEN {have} ELSE Loaded(got))
          \/ reader' = reader /\ have' = have
      BY <1>2 DEF ReadCell, c, got
    <3>2. Loaded(got) \subseteq Versions
      BY DEF Loaded
    <3> QED
      BY <1>0, <2>4, <2>5, <2>6, <3>1, <3>2 DEF Reader
  <2> QED
    BY <1>2, <2>2, <2>7 DEF ReadCell, TypeOK, Busy, Heard, writerVars, Reader
<1> QED
  BY <1>1, <1>2 DEF Read

LEMMA NextInv == Inv /\ [Next]_vars => Inv'
<1> SUFFICES ASSUME Inv, [Next]_vars PROVE Inv'
  OBVIOUS
<1>1. CASE MasterGone
  BY <1>1, PipeAssumption DEF MasterGone, Inv, TypeOK, Busy, Heard, writerVars
<1>2. CASE UNCHANGED vars
  BY <1>2 DEF vars, writerVars, Inv, TypeOK, Busy, Heard
<1> QED
  BY <1>1, <1>2, StartUpdateInv, WriteHeaderInv, WriteDataInv, FlushInv, ResendInv, ReadInv
  DEF Next, Send

LEMMA InitInv == Init => Inv
<1> SUFFICES ASSUME Init PROVE Inv
  OBVIOUS
<1>1. 0 \in Versions
  BY PipeAssumption DEF Versions
<1>2. <<>> \in Seq(Cells) /\ Len(<<>>) = 0
  OBVIOUS
<1>3. reader \in Reader
  BY <1>2 DEF Init, Seek, Reader
<1>4. job \in [ver : Versions, left : 0..2]
  BY <1>1 DEF Init
<1>5. TypeOK
  BY <1>1, <1>2, <1>3, <1>4, PipeAssumption DEF Init, TypeOK, Reader
<1> QED
  BY <1>5 DEF Init, Inv, Busy, Heard

\* For any sizes of pipe, buffer and data: neither ever holds more than it can,
\* and the reader's record stays well formed whatever is cut off (__send_update,
\* _worker_listener).
THEOREM PipeTypes == Spec => []TypeOK
BY InitInv, NextInv, PTL DEF Spec, Inv

\* No wakeup of the resend thread is lost, whatever is cut off and whenever it
\* looks at its queue of one item (__resend).
THEOREM NoLostWakeup == Spec => []FlagIsHeard
<1>1. Inv => FlagIsHeard
  BY DEF Inv, Heard, FlagIsHeard
<1> QED
  BY <1>1, InitInv, NextInv, PTL DEF Spec

-----------------------------------------------------------------------------
(* Versions in the stream never fall: what is written is of the newest, and *)
(* what the reader has is no newer than what it has still to read.         *)

IsData(c) == c[1] = "data"

Rising(s) ==
    \A i, j \in 1..Len(s) : i < j /\ IsData(s[i]) /\ IsData(s[j]) => s[i][2] <= s[j][2]

\* No data of s is newer than any of t.
Follows(s, t) ==
    \A i \in 1..Len(s), j \in 1..Len(t) : IsData(s[i]) /\ IsData(t[j]) => s[i][2] <= t[j][2]

Within(s, lo, hi) == \A i \in 1..Len(s) : IsData(s[i]) => lo <= s[i][2] /\ s[i][2] <= hi

\* All data of s is of version v.
AllOf(s, v) == \A i \in 1..Len(s) : IsData(s[i]) => s[i][2] = v

InStream(p, b, lo, hi) ==
    /\ Rising(p) /\ Rising(b) /\ Follows(p, b)
    /\ Within(p, lo, hi) /\ Within(b, lo, hi)

AgeInv ==
    /\ have <= latest
    /\ wpc # "free" => job.ver = latest
    /\ InStream(pipe, buf, have, latest)

LEMMA Concat ==
    ASSUME NEW s \in Seq(Cells), NEW t \in Seq(Cells)
    PROVE  /\ s \o t \in Seq(Cells)
           /\ \A i \in 1..Len(s \o t) :
                 \/ i \in 1..Len(s) /\ (s \o t)[i] = s[i]
                 \/ /\ i - Len(s) \in 1..Len(t) /\ (s \o t)[i] = t[i - Len(s)]
                    /\ i > Len(s)
<1>1. Len(s) \in Nat /\ Len(t) \in Nat /\ Len(s \o t) = Len(s) + Len(t) /\ s \o t \in Seq(Cells)
  OBVIOUS
<1>2. \A i \in 1..Len(s \o t) : (s \o t)[i] = IF i <= Len(s) THEN s[i] ELSE t[i - Len(s)]
  BY <1>1
<1>3. \A m, n \in Nat : \A i \in 1..(m + n) :
        (i <= m /\ i \in 1..m) \/ (~(i <= m) /\ i > m /\ i - m \in 1..n)
  OBVIOUS
<1> QED
  BY <1>1, <1>2, <1>3

LEMMA DataIsVersion ==
    ASSUME NEW s \in Seq(Cells), NEW i \in 1..Len(s), IsData(s[i])
    PROVE  s[i][2] \in Nat
<1>1. s[i] \in Cells
  OBVIOUS
<1>2. s[i][2] \in Versions
  BY <1>1 DEF Cells, IsData
<1> QED
  BY <1>2, PipeAssumption DEF Versions

LEMMA RisingConcat ==
    ASSUME NEW s \in Seq(Cells), NEW t \in Seq(Cells), Rising(s), Rising(t), Follows(s, t)
    PROVE  Rising(s \o t)
<1> DEFINE u == s \o t
<1> SUFFICES ASSUME NEW i \in 1..Len(u), NEW j \in 1..Len(u), i < j, IsData(u[i]), IsData(u[j])
             PROVE  u[i][2] <= u[j][2]
  BY DEF Rising
<1>1. \/ i \in 1..Len(s) /\ u[i] = s[i]
      \/ i - Len(s) \in 1..Len(t) /\ u[i] = t[i - Len(s)] /\ i > Len(s)
  BY Concat
<1>2. \/ j \in 1..Len(s) /\ u[j] = s[j]
      \/ j - Len(s) \in 1..Len(t) /\ u[j] = t[j - Len(s)] /\ j > Len(s)
  BY Concat
<1>3. Len(s) \in Nat /\ i \in Nat /\ j \in Nat
  BY Concat
<1> HIDE DEF u
<1>4. CASE i \in 1..Len(s) /\ u[i] = s[i] /\ j \in 1..Len(s) /\ u[j] = s[j]
  BY <1>4 DEF Rising
<1>5. CASE /\ i \in 1..Len(s) /\ u[i] = s[i]
           /\ j - Len(s) \in 1..Len(t) /\ u[j] = t[j - Len(s)]
  BY <1>5 DEF Follows
<1>6. CASE /\ i - Len(s) \in 1..Len(t) /\ u[i] = t[i - Len(s)]
           /\ j - Len(s) \in 1..Len(t) /\ u[j] = t[j - Len(s)]
  <2>1. i - Len(s) < j - Len(s)
    BY <1>3
  <2> QED
    BY <1>6, <2>1 DEF Rising
<1>7. ~(i > Len(s) /\ j \in 1..Len(s))
  BY <1>3
<1> QED
  BY <1>1, <1>2, <1>4, <1>5, <1>6, <1>7

LEMMA FollowsConcat ==
    ASSUME NEW s \in Seq(Cells), NEW t \in Seq(Cells), NEW u
    PROVE  /\ Follows(s, u) /\ Follows(t, u) => Follows(s \o t, u)
           /\ Follows(u, s) /\ Follows(u, t) => Follows(u, s \o t)
<1>1. \A i \in 1..Len(s \o t) :
        \/ \E k \in 1..Len(s) : (s \o t)[i] = s[k]
        \/ \E k \in 1..Len(t) : (s \o t)[i] = t[k]
  BY Concat
<1> QED
  BY <1>1 DEF Follows

LEMMA WithinConcat ==
    ASSUME NEW s \in Seq(Cells), NEW t \in Seq(Cells), NEW lo, NEW hi, Within(s, lo, hi), Within(t, lo, hi)
    PROVE  Within(s \o t, lo, hi)
<1>1. \A i \in 1..Len(s \o t) :
        \/ \E k \in 1..Len(s) : (s \o t)[i] = s[k]
        \/ \E k \in 1..Len(t) : (s \o t)[i] = t[k]
  BY Concat
<1> QED
  BY <1>1 DEF Within

\* Data of the newest version may follow anything.
LEMMA NewestFollows ==
    ASSUME NEW lo \in Nat, NEW hi \in Nat, lo <= hi, NEW x \in Seq(Cells), AllOf(x, hi)
    PROVE  /\ Rising(x) /\ Within(x, lo, hi)
           /\ \A s : Within(s, lo, hi) => Follows(s, x)
<1>1. hi <= hi
  OBVIOUS
<1> QED
  BY <1>1 DEF AllOf, Rising, Within, Follows

LEMMA AppendNewest ==
    ASSUME NEW lo \in Nat, NEW hi \in Nat, lo <= hi, NEW p \in Seq(Cells), NEW b \in Seq(Cells),
           InStream(p, b, lo, hi), NEW x \in Seq(Cells), AllOf(x, hi)
    PROVE  InStream(p, b \o x, lo, hi)
<1>1. Rising(x) /\ Within(x, lo, hi) /\ Follows(b, x) /\ Follows(p, x)
  BY NewestFollows DEF InStream
<1> QED
  BY <1>1, RisingConcat, FollowsConcat, WithinConcat DEF InStream

LEMMA FlushNewest ==
    ASSUME NEW lo \in Nat, NEW hi \in Nat, lo <= hi, NEW p \in Seq(Cells), NEW b \in Seq(Cells),
           InStream(p, b, lo, hi), NEW x \in Seq(Cells), AllOf(x, hi)
    PROVE  InStream(p \o b, x, lo, hi)
<1>1. Rising(x) /\ Within(x, lo, hi) /\ Follows(b, x) /\ Follows(p, x)
  BY NewestFollows DEF InStream
<1> QED
  BY <1>1, RisingConcat, FollowsConcat, WithinConcat DEF InStream

\* Reading the head leaves what is no older than the head.
LEMMA DropHead ==
    ASSUME NEW lo \in Nat, NEW hi \in Nat, NEW p \in Seq(Cells), NEW b \in Seq(Cells),
           p # <<>>, InStream(p, b, lo, hi)
    PROVE  /\ InStream(Tail(p), b, lo, hi)
           /\ IsData(Head(p)) => lo <= Head(p)[2] /\ InStream(Tail(p), b, Head(p)[2], hi)
<1>1. Len(p) \in Nat \ {0} /\ Len(Tail(p)) = Len(p) - 1 /\ Head(p) = p[1]
  OBVIOUS
<1>2. \A i \in 1..Len(Tail(p)) : Tail(p)[i] = p[i + 1]
  OBVIOUS
<1>3. \A n \in Nat \ {0} : 1 \in 1..n /\ \A i \in 1..(n - 1) : i + 1 \in 1..n /\ 1 < i + 1
  OBVIOUS
<1>4. \A i \in 1..Len(Tail(p)) : i + 1 \in 1..Len(p) /\ 1 < i + 1 /\ Tail(p)[i] = p[i + 1]
  BY <1>1, <1>2, <1>3
<1>5. Rising(Tail(p))
  <2>1. \A i, j \in 1..Len(Tail(p)) : i < j => i + 1 < j + 1
    OBVIOUS
  <2> QED
    BY <1>4, <2>1 DEF InStream, Rising
<1>6. Follows(Tail(p), b) /\ Within(Tail(p), lo, hi)
  BY <1>4 DEF InStream, Follows, Within
<1>7. ASSUME IsData(Head(p))
      PROVE  lo <= Head(p)[2] /\ Within(Tail(p), Head(p)[2], hi) /\ Within(b, Head(p)[2], hi)
  <2>1. 1 \in 1..Len(p) /\ IsData(p[1])
    BY <1>1, <1>3, <1>7
  <2>2. lo <= Head(p)[2]
    BY <1>1, <2>1 DEF InStream, Within
  <2>3. Within(Tail(p), Head(p)[2], hi)
    BY <1>1, <1>4, <1>6, <2>1 DEF InStream, Within, Rising
  <2>4. Within(b, Head(p)[2], hi)
    BY <1>1, <2>1 DEF InStream, Within, Follows
  <2> QED
    BY <2>2, <2>3, <2>4
<1> QED
  BY <1>5, <1>6, <1>7 DEF InStream

\* A header and the data of v.
LEMMA MessageAllOf ==
    ASSUME NEW v \in Versions
    PROVE  AllOf(Header(v), v) /\ AllOf(Data(v), v)
<1>1. AllOf(Header(v), v)
  BY DEF AllOf, Header, IsData
<1>2. AllOf(Data(v), v)
  <2>1. Size[v] \in Nat
    BY PipeAssumption DEF Versions
  <2>2. Len(Data(v)) = Size[v]
    BY <2>1 DEF Data
  <2>3. \A i \in 1..Size[v] : Data(v)[i] = <<"data", v>>
    BY DEF Data
  <2> QED
    BY <2>2, <2>3 DEF AllOf
<1> QED
  BY <1>1, <1>2

LEMMA PartAllOf ==
    ASSUME NEW x \in Seq(Cells), NEW v, AllOf(x, v), NEW n \in Nat
    PROVE  AllOf(Upto(x, n), v) /\ (n <= Len(x) => AllOf(From(x, n), v))
<1>1. Len(x) \in Nat
  OBVIOUS
<1>2. \A k \in 0..Len(x) : /\ Len(SubSeq(x, 1, k)) = k
                           /\ \A i \in 1..k : SubSeq(x, 1, k)[i] = x[i] /\ i \in 1..Len(x)
  BY <1>1
<1>3. \A k \in 0..Len(x) : AllOf(SubSeq(x, 1, k), v)
  BY <1>2 DEF AllOf
<1>4. AllOf(Upto(x, n), v)
  <2>1. (IF n < Len(x) THEN n ELSE Len(x)) \in 0..Len(x)
    BY <1>1
  <2> QED
    BY <1>3, <2>1 DEF Upto
<1>5. ASSUME n <= Len(x) PROVE AllOf(From(x, n), v)
  <2>1. Len(From(x, n)) = Len(x) - n
    BY <1>1, <1>5 DEF From
  <2>2. \A i \in 1..(Len(x) - n) : From(x, n)[i] = x[i + n] /\ i + n \in 1..Len(x)
    BY <1>1, <1>5 DEF From
  <2> QED
    BY <2>1, <2>2 DEF AllOf
<1> QED
  BY <1>4, <1>5

\* However much of it fits, what is written keeps the order of the stream.
LEMMA WriteNewest ==
    ASSUME TypeOK, AgeInv, NEW x \in Seq(Cells), AllOf(x, latest)
    PROVE  InStream(Write(x).pipe, Write(x).buf, have, latest)
<1> DEFINE part == Upto(x, BufCap - Len(buf))
           direct == IF Len(x) > BufCap THEN Upto(x, Room - Len(buf)) ELSE <<>>
           rest == From(x, Len(direct))
<1>0. /\ PipeCap \in Nat /\ BufCap \in Nat
      /\ pipe \in Seq(Cells) /\ Len(pipe) <= PipeCap /\ Len(pipe) \in Nat
      /\ buf \in Seq(Cells) /\ Len(buf) <= BufCap /\ Len(buf) \in Nat
      /\ Len(x) \in Nat
  BY PipeAssumption DEF TypeOK
<1>1. have \in Nat /\ latest \in Nat /\ have <= latest /\ InStream(pipe, buf, have, latest)
  BY PipeAssumption DEF TypeOK, Versions, AgeInv
<1>2. CASE Len(buf) + Len(x) <= BufCap
  <2>1. Write(x).pipe = pipe /\ Write(x).buf = buf \o x
    BY <1>2 DEF Write
  <2> QED
    BY <1>0, <1>1, <2>1, AppendNewest
<1>3. CASE ~(Len(buf) + Len(x) <= BufCap) /\ Room < Len(buf)
  <2>1. Write(x).pipe = pipe /\ Write(x).buf = buf \o part
    BY <1>3 DEF Write
  <2>2. BufCap - Len(buf) \in Nat
    BY <1>0
  <2>3. part \in Seq(Cells) /\ AllOf(part, latest)
    BY <2>2, UptoType, PartAllOf
  <2> HIDE DEF part
  <2> QED
    BY <1>0, <1>1, <2>1, <2>3, AppendNewest
<1>4. CASE ~(Len(buf) + Len(x) <= BufCap) /\ ~(Room < Len(buf))
  <2>1. Write(x).pipe = pipe \o buf \o direct /\ Write(x).buf = Upto(rest, BufCap)
    BY <1>4 DEF Write
  <2>2. Room - Len(buf) \in Nat
    BY <1>0, <1>4 DEF Room
  <2>3. direct \in Seq(Cells) /\ Len(direct) \in Nat /\ Len(direct) <= Len(x) /\ AllOf(direct, latest)
    <3>1. CASE Len(x) > BufCap
      BY <2>2, <3>1, UptoType, PartAllOf
    <3>2. CASE ~(Len(x) > BufCap)
      BY <1>0, <3>2 DEF AllOf
    <3> QED
      BY <3>1, <3>2
  <2>4. rest \in Seq(Cells) /\ AllOf(rest, latest)
    BY <2>3, FromType, PartAllOf
  <2> HIDE DEF direct, rest
  <2>5. Upto(rest, BufCap) \in Seq(Cells) /\ AllOf(Upto(rest, BufCap), latest)
    BY <1>0, <2>4, UptoType, PartAllOf
  <2>6. pipe \o buf \in Seq(Cells)
    BY <1>0
  <2>7. InStream(pipe \o buf, direct, have, latest)
    BY <1>0, <1>1, <2>3, FlushNewest
  <2> QED
    BY <1>1, <2>1, <2>3, <2>5, <2>6, <2>7, FlushNewest
<1> QED
  BY <1>2, <1>3, <1>4

\* The end of an update leaves the version of the job.
LEMMA EndUpdateVersion ==
    ASSUME TypeOK, EndUpdate
    PROVE  job'.ver = job.ver
BY DEF EndUpdate, TypeOK

LEMMA SendAge == ASSUME Inv, AgeInv, Send PROVE AgeInv'
<1>1. job.ver \in Versions /\ latest \in Nat /\ have \in Nat
  BY PipeAssumption DEF Inv, TypeOK, Versions
<1>2. have' = have /\ latest' = latest /\ wpc # "free" /\ job.ver = latest
  BY DEF Send, WriteHeader, WriteData, Flush, AgeInv
<1>3. job'.ver = job.ver
  BY EndUpdateVersion DEF Inv, Send, WriteHeader, WriteData, Flush
<1>4. InStream(pipe', buf', have, latest)
  <2>1. CASE WriteHeader
    <3>1. pipe' = Write(Header(latest)).pipe /\ buf' = Write(Header(latest)).buf
      BY <1>2, <2>1 DEF WriteHeader, Wrote
    <3> QED
      BY <1>1, <1>2, <3>1, MessageType, MessageAllOf, WriteNewest DEF Inv
  <2>2. CASE WriteData
    <3>1. pipe' = Write(Data(latest)).pipe /\ buf' = Write(Data(latest)).buf
      BY <1>2, <2>2 DEF WriteData, Wrote
    <3> QED
      BY <1>1, <1>2, <3>1, MessageType, MessageAllOf, WriteNewest DEF Inv
  <2>3. CASE Flush
    <3>1. \/ pipe' = pipe \o buf /\ buf' = <<>>
          \/ pipe' = pipe /\ buf' = buf
      BY <2>3 DEF Flush
    <3>2. <<>> \in Seq(Cells) /\ AllOf(<<>>, latest)
      BY DEF AllOf
    <3>3. pipe \in Seq(Cells) /\ buf \in Seq(Cells)
      BY DEF Inv, TypeOK
    <3> QED
      BY <1>1, <3>1, <3>2, <3>3, FlushNewest DEF AgeInv
  <2> QED
    BY <2>1, <2>2, <2>3 DEF Send
<1> QED
  BY <1>2, <1>3, <1>4 DEF AgeInv

\* Within bounds that are wider.
LEMMA WiderBounds ==
    ASSUME NEW p \in Seq(Cells), NEW b \in Seq(Cells), NEW lo, NEW hi \in Nat, NEW top \in Nat,
           hi <= top, InStream(p, b, lo, hi)
    PROVE  InStream(p, b, lo, top)
<1>1. ASSUME NEW s \in Seq(Cells), Within(s, lo, hi) PROVE Within(s, lo, top)
  <2> SUFFICES ASSUME NEW i \in 1..Len(s), IsData(s[i]) PROVE lo <= s[i][2] /\ s[i][2] <= top
    BY DEF Within
  <2>1. s[i][2] \in Nat
    BY DataIsVersion
  <2>2. lo <= s[i][2] /\ s[i][2] <= hi
    BY <1>1 DEF Within
  <2> QED
    BY <2>1, <2>2
<1> QED
  BY <1>1 DEF InStream

LEMMA ReadAge ==
    ASSUME Inv, AgeInv, Read
    PROVE  AgeInv' /\ have' >= have
<1>1. have \in Nat /\ latest \in Nat /\ have <= latest /\ pipe \in Seq(Cells) /\ buf \in Seq(Cells)
  BY PipeAssumption DEF Inv, TypeOK, Versions, AgeInv
<1>2. UNCHANGED <<buf, latest, wpc, job>>
  BY DEF Read, ReadCell, ReadEof, writerVars
<1>3. CASE ReadEof
  BY <1>1, <1>3 DEF ReadEof, AgeInv, writerVars
<1>4. CASE ReadCell
  <2> DEFINE got == Append(reader.got, Head(pipe))
  <2>1. pipe # <<>> /\ pipe' = Tail(pipe)
    BY <1>4 DEF ReadCell
  <2>2. have' = have \/ have' \in Loaded(got)
    BY <1>4 DEF ReadCell
  <2>3. InStream(Tail(pipe), buf, have, latest)
    BY <1>1, <2>1, DropHead DEF AgeInv
  <2>4. CASE have' = have
    BY <1>1, <1>2, <2>1, <2>3, <2>4 DEF AgeInv
  <2>5. CASE have' \in Loaded(got)
    <3>1. have' \in Versions /\ got = Data(have')
      BY <2>5 DEF Loaded
    <3>2. reader.got \in Seq(Cells) /\ Head(pipe) \in Cells /\ Len(reader.got) \in Nat
      BY <1>1, <2>1 DEF Inv, TypeOK
    <3>3. Len(got) = Len(reader.got) + 1 /\ got[Len(reader.got) + 1] = Head(pipe)
      BY <3>2
    <3>4. Size[have'] \in Nat /\ Len(Data(have')) = Size[have']
      BY <3>1, PipeAssumption DEF Versions, Data
    <3>5. Len(reader.got) + 1 \in 1..Size[have']
      BY <3>1, <3>2, <3>3, <3>4
    <3>6. Head(pipe) = <<"data", have'>>
      BY <3>1, <3>3, <3>5 DEF Data
    <3>7. IsData(Head(pipe)) /\ Head(pipe)[2] = have'
      BY <3>6 DEF IsData
    <3>8. have <= have' /\ InStream(Tail(pipe), buf, have', latest)
      BY <1>1, <2>1, <3>7, DropHead DEF AgeInv
    <3>9. have' <= latest
      <4>1. 1 \in 1..Len(pipe) /\ Head(pipe) = pipe[1]
        BY <1>1, <2>1
      <4> QED
        BY <3>7, <4>1 DEF AgeInv, InStream, Within
    <3>10. have' \in Nat
      BY <3>1, PipeAssumption DEF Versions
    <3> QED
      BY <1>1, <1>2, <2>1, <3>8, <3>9, <3>10 DEF AgeInv
  <2> QED
    BY <2>2, <2>4, <2>5
<1> QED
  BY <1>3, <1>4 DEF Read

LEMMA NextAge == Inv /\ AgeInv /\ [Next]_vars => AgeInv' /\ have' >= have
<1> SUFFICES ASSUME Inv, AgeInv, [Next]_vars PROVE AgeInv' /\ have' >= have
  OBVIOUS
<1>1. have \in Nat /\ latest \in Nat /\ have <= latest /\ have >= have
      /\ pipe \in Seq(Cells) /\ buf \in Seq(Cells)
  BY PipeAssumption DEF Inv, TypeOK, Versions, AgeInv
<1>2. CASE StartUpdate
  <2>1. latest' \in Nat /\ latest <= latest' /\ have <= latest'
    BY <1>1, <1>2 DEF StartUpdate
  <2>2. InStream(pipe, buf, have, latest')
    BY <1>1, <2>1, WiderBounds DEF AgeInv
  <2>3. UNCHANGED <<pipe, buf, have>> /\ job'.ver = latest'
    BY <1>2 DEF StartUpdate
  <2> QED
    BY <1>1, <2>1, <2>2, <2>3 DEF AgeInv
<1>3. CASE Send
  <2>1. have' = have
    BY <1>3 DEF Send, WriteHeader, WriteData, Flush
  <2> QED
    BY <1>1, <1>3, <2>1, SendAge
<1>4. CASE Resend
  BY <1>1, <1>4 DEF Resend, ResendGet, ResendStart, ResendData, AgeInv
<1>5. CASE MasterGone
  <2>1. InStream(pipe, <<>>, have, latest)
    BY DEF AgeInv, InStream, Rising, Follows, Within
  <2> QED
    BY <1>1, <1>5, <2>1 DEF MasterGone, AgeInv, writerVars
<1>6. CASE UNCHANGED vars
  BY <1>1, <1>6 DEF vars, writerVars, AgeInv
<1> QED
  BY <1>2, <1>3, <1>4, <1>5, <1>6, ReadAge DEF Next

LEMMA InitAge == Init => AgeInv
BY DEF Init, AgeInv, InStream, Rising, Follows, Within

\* For any sizes of pipe, buffer and data, and whatever is cut off, resent or
\* swallowed in place of a missing end: the worker never goes back to an older
\* version of the upstreams (__send_update, __resend, _worker_listener).
THEOREM NeverBackwards == Spec => NeverOlder
<1>1. Inv /\ AgeInv /\ [Next]_vars => [have' >= have]_vars
  BY NextAge
<1> QED
  BY <1>1, InitInv, NextInv, InitAge, NextAge, PTL DEF Spec, NeverOlder

-----------------------------------------------------------------------------
(* What the reader will have read when it has read everything: the cells   *)
(* of the pipe and the buffer move a reader from one state to the next, and *)
(* a reader that does not give up ends in a state that only the writers    *)
(* change.                                                                 *)

Stream == pipe \o buf

States == [at : {"magic", "size", "data"}, need : Nat, got : Seq(Cells), have : Versions]

\* A reader of data needs some; one that seeks has nothing.
Fit(r) == IF r.at = "data" THEN Len(r.got) < r.need ELSE r.need = 0 /\ r.got = <<>>

Readers == {r \in States : Fit(r)}

Idle(v) == [at |-> "magic", need |-> 0, got |-> <<>>, have |-> v]
Sized(v) == [at |-> "size", need |-> 0, got |-> <<>>, have |-> v]
Awaiting(n, s, v) == [at |-> "data", need |-> n, got |-> s, have |-> v]

\* The reader as it is.
View == [at |-> reader.at, need |-> reader.need, got |-> reader.got, have |-> have]

Told(got, v) == IF Loaded(got) = {} THEN v ELSE CHOOSE u \in Loaded(got) : TRUE

\* ReadCell without the limit and without a magic that no size follows.
Moves(r, c, q) ==
    \/ r.at = "magic" /\ c[1] # "magic" /\ q = r
    \/ r.at = "magic" /\ c[1] = "magic" /\ q = Sized(r.have)
    \/ r.at = "size" /\ c[1] = "size" /\ q = Awaiting(c[2], <<>>, r.have)
    \/ r.at = "data" /\ Len(r.got) + 1 < r.need
       /\ q = Awaiting(r.need, Append(r.got, c), r.have)
    \/ r.at = "data" /\ Len(r.got) + 1 = r.need
       /\ q = Idle(Told(Append(r.got, c), r.have))

Leads(r, s, q) ==
    \E h \in [0..Len(s) -> Readers] :
        /\ h[0] = r /\ h[Len(s)] = q
        /\ \A i \in 1..Len(s) : Moves(h[i - 1], s[i], h[i])

LEMMA IdleIs ==
    ASSUME NEW v \in Versions
    PROVE  Idle(v) \in Readers /\ Sized(v) \in Readers
<1>1. <<>> \in Seq(Cells)
  OBVIOUS
<1>2. Idle(v) \in States /\ Sized(v) \in States
  BY <1>1 DEF Idle, Sized, States
<1> QED
  BY <1>2 DEF Readers, Fit, Idle, Sized

LEMMA AwaitingIs ==
    ASSUME NEW v \in Versions, NEW n \in Nat, NEW s \in Seq(Cells), Len(s) < n
    PROVE  Awaiting(n, s, v) \in Readers
<1>1. Awaiting(n, s, v) \in States
  BY DEF Awaiting, States
<1> QED
  BY <1>1 DEF Readers, Fit, Awaiting

\* A reader is one of three.
LEMMA ReaderIs ==
    ASSUME NEW r \in Readers
    PROVE  /\ r.have \in Versions /\ r.need \in Nat /\ r.got \in Seq(Cells) /\ Len(r.got) \in Nat
           /\ \/ r = Idle(r.have) /\ r.at = "magic"
              \/ r = Sized(r.have) /\ r.at = "size"
              \/ r = Awaiting(r.need, r.got, r.have) /\ r.at = "data" /\ Len(r.got) < r.need
<1>1. r \in States /\ Fit(r)
  BY DEF Readers
<1>2. r = [at |-> r.at, need |-> r.need, got |-> r.got, have |-> r.have]
  BY <1>1 DEF States
<1>3. r.at \in {"magic", "size", "data"} /\ r.need \in Nat /\ r.got \in Seq(Cells) /\ r.have \in Versions
  BY <1>1 DEF States
<1> QED
  BY <1>1, <1>2, <1>3 DEF Fit, Idle, Sized, Awaiting

LEMMA LeadsNowhere ==
    ASSUME NEW r \in Readers, NEW q
    PROVE  /\ Leads(r, <<>>, r)
           /\ Leads(r, <<>>, q) => q = r
<1>1. Len(<<>>) = 0 /\ 1..0 = {} /\ 0 \in 0..0
  OBVIOUS
<1>2. [i \in 0..0 |-> r] \in [0..0 -> Readers] /\ [i \in 0..0 |-> r][0] = r
  BY <1>1
<1>3. Leads(r, <<>>, r)
  BY <1>1, <1>2 DEF Leads
<1> QED
  BY <1>1, <1>3 DEF Leads

LEMMA LeadsOne ==
    ASSUME NEW r \in Readers, NEW c \in Cells, NEW q \in Readers, Moves(r, c, q)
    PROVE  Leads(r, <<c>>, q)
<1> DEFINE h == [i \in 0..1 |-> IF i = 0 THEN r ELSE q]
<1>1. Len(<<c>>) = 1 /\ <<c>>[1] = c
  OBVIOUS
<1>2. h \in [0..1 -> Readers] /\ h[0] = r /\ h[1] = q
  OBVIOUS
<1>3. \A i \in 1..1 : i = 1 /\ i - 1 = 0
  OBVIOUS
<1> HIDE DEF h
<1>4. \A i \in 1..1 : Moves(h[i - 1], <<c>>[i], h[i])
  BY <1>1, <1>2, <1>3
<1> QED
  BY <1>1, <1>2, <1>4 DEF Leads

LEMMA LeadsOn ==
    ASSUME NEW r, NEW q, NEW p, NEW s \in Seq(Cells), NEW t \in Seq(Cells),
           Leads(r, s, q), Leads(q, t, p)
    PROVE  Leads(r, s \o t, p)
<1> DEFINE m == Len(s)
           n == Len(t)
<1>1. m \in Nat /\ n \in Nat /\ Len(s \o t) = m + n
  OBVIOUS
<1>2. \A i \in 1..(m + n) : (s \o t)[i] = IF i <= m THEN s[i] ELSE t[i - m]
  BY <1>1
<1> HIDE DEF m, n
<1>3. PICK f \in [0..m -> Readers] :
        f[0] = r /\ f[m] = q /\ \A i \in 1..m : Moves(f[i - 1], s[i], f[i])
  BY DEF Leads, m
<1>4. PICK g \in [0..n -> Readers] :
        g[0] = q /\ g[n] = p /\ \A i \in 1..n : Moves(g[i - 1], t[i], g[i])
  BY DEF Leads, n
<1> DEFINE h == [i \in 0..(m + n) |-> IF i <= m THEN f[i] ELSE g[i - m]]
<1>5. h \in [0..(m + n) -> Readers]
  <2>1. \A i \in 0..(m + n) : (i <= m => i \in 0..m) /\ (~(i <= m) => i - m \in 0..n)
    BY <1>1
  <2> QED
    BY <1>3, <1>4, <2>1
<1>6. \A i \in 0..m : h[i] = f[i]
  BY <1>1
<1>7. \A i \in 0..n : h[m + i] = g[i]
  <2>1. \A i \in 0..n : m + i \in 0..(m + n) /\ (m + i <= m => i = 0) /\ (m + i) - m = i
    BY <1>1
  <2>2. m + 0 = m /\ m <= m
    BY <1>1
  <2> QED
    BY <1>1, <1>3, <1>4, <2>1, <2>2
<1> HIDE DEF h
<1>8. h[0] = r /\ h[m + n] = p
  <2>1. 0 \in 0..m /\ n \in 0..n
    BY <1>1
  <2> QED
    BY <1>3, <1>4, <1>6, <1>7, <2>1
<1>9. ASSUME NEW i \in 1..(m + n)
      PROVE  Moves(h[i - 1], (s \o t)[i], h[i])
  <2>1. CASE i <= m
    <3>1. i \in 1..m /\ i \in 0..m /\ i - 1 \in 0..m
      BY <1>1, <2>1
    <3> QED
      BY <1>2, <1>3, <1>6, <2>1, <3>1
  <2>2. CASE ~(i <= m)
    <3> DEFINE j == i - m
    <3>1. /\ j \in 1..n /\ j \in 0..n /\ j - 1 \in 0..n
          /\ m + j = i /\ m + (j - 1) = i - 1
      BY <1>1, <2>2
    <3>2. (s \o t)[i] = t[j]
      BY <1>2, <2>2
    <3> HIDE DEF j
    <3>3. h[i] = g[j] /\ h[i - 1] = g[j - 1]
      BY <1>7, <3>1
    <3> QED
      BY <1>4, <3>1, <3>2, <3>3
  <2> QED
    BY <2>1, <2>2
<1> QED
  BY <1>1, <1>5, <1>8, <1>9 DEF Leads

LEMMA LeadsTail ==
    ASSUME NEW r, NEW q, NEW s \in Seq(Cells), s # <<>>, Leads(r, s, q)
    PROVE  \E p \in Readers : Moves(r, Head(s), p) /\ Leads(p, Tail(s), q)
<1> DEFINE n == Len(s)
<1>1. n \in Nat \ {0} /\ Len(Tail(s)) = n - 1 /\ Head(s) = s[1]
  OBVIOUS
<1>2. \A i \in 1..(n - 1) : Tail(s)[i] = s[i + 1]
  OBVIOUS
<1> HIDE DEF n
<1>3. PICK h \in [0..n -> Readers] :
        h[0] = r /\ h[n] = q /\ \A i \in 1..n : Moves(h[i - 1], s[i], h[i])
  BY DEF Leads, n
<1> DEFINE g == [i \in 0..(n - 1) |-> h[i + 1]]
<1>4. \A i \in 0..(n - 1) : i + 1 \in 0..n /\ i + 1 \in 1..n /\ (i + 1) - 1 = i
  BY <1>1
<1>5. g \in [0..(n - 1) -> Readers] /\ \A i \in 0..(n - 1) : g[i] = h[i + 1]
  BY <1>4
<1> HIDE DEF g
<1>6. g[0] = h[1] /\ g[n - 1] = q /\ h[1] \in Readers
  <2>1. 0 \in 0..(n - 1) /\ n - 1 \in 0..(n - 1) /\ 0 + 1 = 1 /\ (n - 1) + 1 = n
    BY <1>1
  <2> QED
    BY <1>3, <1>4, <1>5, <2>1
<1>7. ASSUME NEW i \in 1..(n - 1)
      PROVE  Moves(g[i - 1], Tail(s)[i], g[i])
  <2>1. i \in 0..(n - 1) /\ i - 1 \in 0..(n - 1) /\ (i - 1) + 1 = i
    BY <1>1
  <2>2. g[i - 1] = h[i] /\ g[i] = h[i + 1]
    BY <1>5, <2>1
  <2>3. i + 1 \in 1..n /\ (i + 1) - 1 = i
    BY <1>4, <2>1
  <2>4. Moves(h[(i + 1) - 1], s[i + 1], h[i + 1])
    BY <1>3, <2>3
  <2> QED
    BY <1>2, <2>2, <2>3, <2>4
<1>8. Moves(r, s[1], h[1])
  <2>1. 1 \in 1..n /\ 1 - 1 = 0
    BY <1>1
  <2> QED
    BY <1>3, <2>1
<1>9. Leads(h[1], Tail(s), q)
  BY <1>1, <1>5, <1>6, <1>7 DEF Leads
<1> QED
  BY <1>1, <1>6, <1>8, <1>9

\* Cells the reader will take for data, whatever they are.
Owed(r) == IF r.at = "data" THEN r.need - Len(r.got) ELSE 0

Part(v, n) == [i \in 1..n |-> <<"data", v>>]

LEMMA OwedIs ==
    ASSUME NEW r \in Readers
    PROVE  /\ Owed(r) \in Nat
           /\ r.at = "data" => Owed(r) > 0
           /\ r.at # "data" => Owed(r) = 0
BY ReaderIs DEF Owed

LEMMA PartOfData ==
    ASSUME NEW v \in Versions, NEW n \in Nat
    PROVE  /\ Part(v, n) \in Seq(Cells) /\ Len(Part(v, n)) = n
           /\ \A i \in 1..n : Part(v, n)[i] = <<"data", v>>
           /\ <<"data", v>> \in Cells
           /\ n <= Size[v] => SubSeq(Data(v), 1, n) = Part(v, n)
           /\ Data(v) = Part(v, Size[v])
<1>1. <<"data", v>> \in Cells
  BY DEF Cells
<1>2. \A c \in Cells : [i \in 1..n |-> c] \in Seq(Cells)
  OBVIOUS
<1>3. Part(v, n) \in Seq(Cells) /\ Len(Part(v, n)) = n
  BY <1>1, <1>2 DEF Part
<1>4. \A i \in 1..n : Part(v, n)[i] = <<"data", v>>
  BY DEF Part
<1>5. ASSUME n <= Size[v] PROVE SubSeq(Data(v), 1, n) = Part(v, n)
  <2>1. Size[v] \in Nat /\ Data(v) \in Seq(Cells) /\ Len(Data(v)) = Size[v]
    BY MessageType, PipeAssumption DEF Versions, Data
  <2>2. \A i \in 1..n : Data(v)[i] = <<"data", v>>
    BY <1>5, <2>1 DEF Data
  <2>3. /\ SubSeq(Data(v), 1, n) \in Seq(Cells) /\ Len(SubSeq(Data(v), 1, n)) = n
        /\ \A i \in 1..n : SubSeq(Data(v), 1, n)[i] = Data(v)[i]
    BY <1>5, <2>1
  <2> QED
    BY <1>3, <1>4, <2>2, <2>3, SeqEqual
<1>6. Data(v) = Part(v, Size[v])
  BY DEF Data, Part
<1> QED
  BY <1>1, <1>3, <1>4, <1>5, <1>6

LEMMA Joined ==
    ASSUME NEW s \in Seq(Cells), NEW t \in Seq(Cells), NEW m, NEW n, Len(s) = m, Len(t) = n
    PROVE  /\ s \o t \in Seq(Cells) /\ Len(s \o t) = m + n
           /\ \A k \in 1..(m + n) : (s \o t)[k] = IF k <= m THEN s[k] ELSE t[k - m]
<1>1. /\ s \o t \in Seq(Cells) /\ Len(s \o t) = Len(s) + Len(t)
      /\ \A k \in 1..(Len(s) + Len(t)) :
            (s \o t)[k] = IF k <= Len(s) THEN s[k] ELSE t[k - Len(s)]
  BY ConcatProperties
<1> QED
  BY <1>1

\* s, then p and one cell more, which is q.
LEMMA OneMore ==
    ASSUME NEW s \in Seq(Cells), NEW p \in Seq(Cells), NEW q \in Seq(Cells), NEW c \in Cells,
           NEW i \in Nat, i > 0, Len(p) = i - 1, Len(q) = i,
           \A k \in 1..(i - 1) : p[k] = c, \A k \in 1..i : q[k] = c
    PROVE  Append(s \o p, c) = s \o q
<1> DEFINE m == Len(s)
           x == s \o p
           y == s \o q
           z == Append(x, c)
<1>1. m \in Nat /\ i - 1 \in Nat
  OBVIOUS
<1>2. /\ y \in Seq(Cells) /\ Len(y) = m + i
      /\ \A k \in 1..(m + i) : y[k] = IF k <= m THEN s[k] ELSE q[k - m]
  BY Joined
<1>3. /\ x \in Seq(Cells) /\ Len(x) = m + (i - 1)
      /\ \A k \in 1..(m + (i - 1)) : x[k] = IF k <= m THEN s[k] ELSE p[k - m]
  BY Joined
<1>4. /\ z \in Seq(Cells) /\ Len(z) = Len(x) + 1
      /\ \A k \in 1..Len(x) : z[k] = x[k]
      /\ z[Len(x) + 1] = c
  BY <1>3, AppendProperties
<1> HIDE DEF m, x, y, z
<1>5. Len(z) = m + i
  BY <1>1, <1>3, <1>4
<1>6. ASSUME NEW k \in 1..(m + i) PROVE z[k] = y[k]
  <2>1. CASE k <= m
    <3>1. k \in 1..(m + (i - 1))
      BY <1>1, <2>1
    <3> QED
      BY <1>2, <1>3, <1>4, <2>1, <3>1
  <2>2. CASE ~(k <= m)
    <3>1. k - m \in 1..i /\ (k \in 1..(m + (i - 1)) => k - m \in 1..(i - 1))
          /\ (k \notin 1..(m + (i - 1)) => k = (m + (i - 1)) + 1)
      BY <1>1, <2>2
    <3>2. y[k] = c
      BY <1>2, <2>2, <3>1
    <3>3. z[k] = c
      <4>1. CASE k \in 1..(m + (i - 1))
        BY <1>1, <1>3, <1>4, <2>2, <3>1, <4>1
      <4>2. CASE k \notin 1..(m + (i - 1))
        BY <1>3, <1>4, <3>1, <4>2
      <4> QED
        BY <4>1, <4>2
    <3> QED
      BY <3>2, <3>3
  <2> QED
    BY <2>1, <2>2
<1>7. z = y
  BY <1>2, <1>4, <1>5, <1>6, SeqEqual
<1> QED
  BY <1>7 DEF x, y, z

LEMMA PartGrows ==
    ASSUME NEW v \in Versions, NEW s \in Seq(Cells), NEW i \in Nat, i > 0
    PROVE  Append(s \o Part(v, i - 1), <<"data", v>>) = s \o Part(v, i)
<1>1. i - 1 \in Nat
  OBVIOUS
<1>2. /\ Part(v, i) \in Seq(Cells) /\ Len(Part(v, i)) = i
      /\ \A k \in 1..i : Part(v, i)[k] = <<"data", v>>
      /\ <<"data", v>> \in Cells
  BY PartOfData
<1>3. /\ Part(v, i - 1) \in Seq(Cells) /\ Len(Part(v, i - 1)) = i - 1
      /\ \A k \in 1..(i - 1) : Part(v, i - 1)[k] = <<"data", v>>
  BY <1>1, PartOfData
<1> QED
  BY <1>2, <1>3, OneMore

LEMMA ToldIs ==
    ASSUME NEW got, NEW v \in Versions
    PROVE  /\ Told(got, v) \in Versions
           /\ \A u \in Versions : got = Data(u) => Told(got, v) = u
           /\ \A u \in Loaded(got) : Told(got, v) = u
<1>1. ASSUME NEW u \in Versions, NEW w \in Versions, Data(u) = Data(w)
      PROVE  u = w
  <2>1. 1 \in 1..Size[u] /\ 1 \in 1..Size[w]
    BY PipeAssumption DEF Versions
  <2>2. Data(u)[1] = <<"data", u>> /\ Data(w)[1] = <<"data", w>>
    BY <2>1 DEF Data
  <2> QED
    BY <1>1, <2>2
<1>2. Loaded(got) \subseteq Versions /\ \A u \in Loaded(got) : got = Data(u)
  BY DEF Loaded
<1>3. Told(got, v) \in Versions
  BY <1>2 DEF Told
<1>4. ASSUME NEW u \in Loaded(got) PROVE Told(got, v) = u
  BY <1>1, <1>2, <1>4 DEF Told
<1>5. \A u \in Versions : got = Data(u) => u \in Loaded(got)
  BY DEF Loaded
<1> QED
  BY <1>3, <1>4, <1>5

\* Data that is read for data, whatever it is.
LEMMA AwaitingRun ==
    ASSUME NEW v \in Versions, NEW n \in Nat,
           NEW m \in Nat, NEW s \in Seq(Cells), NEW w \in Versions, Len(s) < m
    PROVE  \E q \in Readers :
              /\ Leads(Awaiting(m, s, w), Part(v, n), q)
              /\ q.at # "size"
              /\ Owed(q) = IF n < m - Len(s) THEN (m - Len(s)) - n ELSE 0
              /\ m = Size[v] /\ s = <<>> /\ n = Size[v] => q = Idle(v)
<1> DEFINE r == Awaiting(m, s, w)
           e == m - Len(s)
           end == Idle(Told(s \o Part(v, e), w))
           mid(i) == Awaiting(m, s \o Part(v, i), w)
           h == [i \in 0..n |-> IF i < e THEN mid(i) ELSE end]
<1>0. /\ Part(v, n) \in Seq(Cells) /\ Len(Part(v, n)) = n
      /\ \A i \in 1..n : Part(v, n)[i] = <<"data", v>>
      /\ <<"data", v>>[1] # "magic"
  BY PartOfData
<1>1. Len(s) \in Nat
  OBVIOUS
<1>2. e \in Nat /\ e > 0 /\ Len(s) + e = m
  BY <1>1
<1>3. end \in Readers /\ end.at = "magic"
  BY <1>1, ToldIs, IdleIs DEF Idle
<1> HIDE DEF e, end
<1>4. ASSUME NEW i \in Nat, i < e
      PROVE  /\ mid(i) \in Readers /\ mid(i).at = "data" /\ Owed(mid(i)) = e - i
             /\ mid(i).need = m /\ mid(i).have = w
             /\ mid(i).got = s \o Part(v, i) /\ Len(s \o Part(v, i)) = Len(s) + i
  <2>1. s \o Part(v, i) \in Seq(Cells) /\ Len(s \o Part(v, i)) = Len(s) + i
    <3>1. Part(v, i) \in Seq(Cells) /\ Len(Part(v, i)) = i
      BY PartOfData
    <3> QED
      BY <1>1, <3>1, ConcatProperties
  <2>2. Len(s \o Part(v, i)) < m
    BY <1>1, <1>2, <1>4, <2>1
  <2>3. mid(i) \in Readers
    BY <1>1, <2>1, <2>2, AwaitingIs
  <2>4. Owed(mid(i)) = m - (Len(s) + i)
    BY <2>1 DEF Owed, Awaiting
  <2> QED
    BY <1>1, <1>2, <2>1, <2>3, <2>4 DEF Awaiting
<1>5. mid(0) = r
  <2>1. Part(v, 0) \in Seq(Cells) /\ Len(Part(v, 0)) = 0
    BY PartOfData
  <2>2. Part(v, 0) = <<>>
    BY <2>1
  <2>3. s \o <<>> = s
    BY <1>1, ConcatEmptySeq
  <2> QED
    BY <2>2, <2>3
<1>6. ASSUME NEW i \in Nat, i > 0, i < e
      PROVE  Moves(mid(i - 1), <<"data", v>>, mid(i))
  <2>1. i - 1 \in Nat /\ i - 1 < e
    BY <1>2, <1>6
  <2>2. Append(s \o Part(v, i - 1), <<"data", v>>) = s \o Part(v, i)
    BY <1>1, <1>6, PartGrows
  <2>3. Len(s \o Part(v, i - 1)) + 1 < m
    <3>1. Len(s \o Part(v, i - 1)) = Len(s) + (i - 1)
      BY <1>4, <2>1
    <3> QED
      BY <1>1, <1>2, <1>6, <3>1
  <2>4. /\ mid(i - 1).at = "data" /\ mid(i - 1).need = m /\ mid(i - 1).have = w
        /\ mid(i - 1).got = s \o Part(v, i - 1)
    BY <1>4, <2>1
  <2> HIDE DEF mid
  <2>5. mid(i) = Awaiting(m, s \o Part(v, i), w)
    BY DEF mid
  <2> QED
    BY <2>2, <2>3, <2>4, <2>5 DEF Moves
<1>7. Moves(mid(e - 1), <<"data", v>>, end)
  <2>1. e - 1 \in Nat /\ e - 1 < e
    BY <1>2
  <2>2. Append(s \o Part(v, e - 1), <<"data", v>>) = s \o Part(v, e)
    BY <1>1, <1>2, PartGrows
  <2>3. Len(s \o Part(v, e - 1)) + 1 = m
    <3>1. Len(s \o Part(v, e - 1)) = Len(s) + (e - 1)
      BY <1>4, <2>1
    <3> QED
      BY <1>1, <1>2, <3>1
  <2>4. /\ mid(e - 1).at = "data" /\ mid(e - 1).need = m /\ mid(e - 1).have = w
        /\ mid(e - 1).got = s \o Part(v, e - 1)
    BY <1>4, <2>1
  <2> HIDE DEF mid
  <2> QED
    BY <2>2, <2>3, <2>4 DEF Moves, end
<1> HIDE DEF mid
<1>8. Moves(end, <<"data", v>>, end)
  BY <1>0, <1>3 DEF Moves
<1>9. h \in [0..n -> Readers]
  BY <1>3, <1>4
<1>10. h[0] = r /\ h[n] = IF n < e THEN mid(n) ELSE end
  BY <1>2, <1>5
<1>11. ASSUME NEW i \in 1..n PROVE Moves(h[i - 1], Part(v, n)[i], h[i])
  <2>1. i \in Nat /\ i > 0 /\ i \in 0..n /\ i - 1 \in 0..n
    OBVIOUS
  <2>2. CASE i < e
    <3>1. h[i] = mid(i) /\ h[i - 1] = mid(i - 1)
      BY <1>2, <2>1, <2>2
    <3> QED
      BY <1>0, <1>6, <2>1, <2>2, <3>1
  <2>3. CASE i = e
    <3>1. h[i] = end /\ h[i - 1] = mid(i - 1)
      BY <1>2, <2>1, <2>3
    <3> QED
      BY <1>0, <1>7, <2>1, <2>3, <3>1
  <2>4. CASE i > e
    <3>1. h[i] = end /\ h[i - 1] = end
      BY <1>2, <2>1, <2>4
    <3> QED
      BY <1>0, <1>8, <2>1, <2>4, <3>1
  <2> QED
    BY <1>2, <2>1, <2>2, <2>3, <2>4
<1> HIDE DEF h
<1>12. Leads(r, Part(v, n), h[n])
  BY <1>0, <1>9, <1>10, <1>11 DEF Leads
<1>13. h[n] \in Readers /\ h[n].at # "size"
       /\ Owed(h[n]) = IF n < e THEN e - n ELSE 0
  BY <1>3, <1>4, <1>10 DEF Owed
<1>14. ASSUME m = Size[v], s = <<>>, n = Size[v]
       PROVE  h[n] = Idle(v)
  <2>1. e = Size[v] /\ ~(n < e)
    BY <1>1, <1>2, <1>14
  <2>2. s \o Part(v, e) = Data(v)
    BY <1>2, <1>14, <2>1, PartOfData, ConcatEmptySeq
  <2> QED
    BY <1>1, <1>10, <2>1, <2>2, ToldIs DEF end
<1> QED
  BY <1>12, <1>13, <1>14 DEF e

\* Data that is read, in whatever state the reader is between messages.
LEMMA DataRun ==
    ASSUME NEW v \in Versions, NEW n \in Nat, NEW r \in Readers, r.at # "size"
    PROVE  \E q \in Readers :
              /\ Leads(r, Part(v, n), q)
              /\ q.at # "size"
              /\ Owed(q) = IF n < Owed(r) THEN Owed(r) - n ELSE 0
              /\ r.at = "data" /\ r.need = Size[v] /\ r.got = <<>> /\ n = Size[v] => q = Idle(v)
<1>1. /\ Part(v, n) \in Seq(Cells) /\ Len(Part(v, n)) = n
      /\ \A i \in 1..n : Part(v, n)[i] = <<"data", v>>
      /\ <<"data", v>>[1] # "magic"
  BY PartOfData
<1>2. CASE r.at = "magic"
  <2> DEFINE h == [i \in 0..n |-> r]
  <2>1. h \in [0..n -> Readers] /\ h[0] = r /\ h[n] = r
    OBVIOUS
  <2>2. \A i \in 1..n : h[i - 1] = r /\ h[i] = r
    OBVIOUS
  <2> HIDE DEF h
  <2>3. \A i \in 1..n : Moves(h[i - 1], Part(v, n)[i], h[i])
    BY <1>1, <1>2, <2>2 DEF Moves
  <2>4. Leads(r, Part(v, n), r)
    BY <1>1, <2>1, <2>3 DEF Leads
  <2>5. Owed(r) = 0
    BY <1>2 DEF Owed
  <2> QED
    BY <1>2, <2>4, <2>5
<1>3. CASE r.at = "data"
  <2>1. /\ r.have \in Versions /\ r.need \in Nat /\ r.got \in Seq(Cells) /\ Len(r.got) < r.need
        /\ r = Awaiting(r.need, r.got, r.have)
    BY <1>3, ReaderIs
  <2>2. Owed(r) = r.need - Len(r.got)
    BY <1>3 DEF Owed
  <2>3. PICK q \in Readers :
          /\ Leads(Awaiting(r.need, r.got, r.have), Part(v, n), q)
          /\ q.at # "size"
          /\ Owed(q) = IF n < r.need - Len(r.got) THEN (r.need - Len(r.got)) - n ELSE 0
          /\ r.need = Size[v] /\ r.got = <<>> /\ n = Size[v] => q = Idle(v)
    BY <2>1, AwaitingRun
  <2> QED
    BY <2>1, <2>2, <2>3
<1> QED
  BY <1>2, <1>3, ReaderIs

\* Any cell is as good as data to a reader that needs some.
LEMMA SwallowOne ==
    ASSUME NEW r \in Readers, r.at = "data", NEW c \in Cells
    PROVE  \E q \in Readers : Leads(r, <<c>>, q) /\ q.at # "size" /\ Owed(q) = Owed(r) - 1
<1>1. /\ r.have \in Versions /\ r.need \in Nat /\ r.got \in Seq(Cells) /\ Len(r.got) \in Nat
      /\ Len(r.got) < r.need
  BY ReaderIs
<1> DEFINE s == Append(r.got, c)
<1>2. s \in Seq(Cells) /\ Len(s) = Len(r.got) + 1
  BY <1>1
<1>3. Owed(r) = r.need - Len(r.got)
  BY DEF Owed
<1>4. CASE Len(r.got) + 1 < r.need
  <2> DEFINE q == Awaiting(r.need, s, r.have)
  <2>1. q \in Readers
    BY <1>1, <1>2, <1>4, AwaitingIs
  <2>2. Moves(r, c, q)
    BY <1>4 DEF Moves
  <2>3. q.at = "data" /\ Owed(q) = r.need - (Len(r.got) + 1)
    BY <1>2 DEF Owed, Awaiting
  <2> HIDE DEF q
  <2>4. Owed(q) = Owed(r) - 1 /\ q.at # "size"
    BY <1>1, <1>3, <2>3
  <2> QED
    BY <2>1, <2>2, <2>4, LeadsOne
<1>5. CASE Len(r.got) + 1 = r.need
  <2> DEFINE q == Idle(Told(s, r.have))
  <2>1. q \in Readers
    BY <1>1, ToldIs, IdleIs
  <2>2. Moves(r, c, q)
    BY <1>5 DEF Moves
  <2>3. q.at = "magic" /\ Owed(q) = 0
    BY DEF Owed, Idle
  <2> HIDE DEF q
  <2>4. Owed(q) = Owed(r) - 1 /\ q.at # "size"
    BY <1>1, <1>3, <1>5, <2>3
  <2> QED
    BY <2>1, <2>2, <2>4, LeadsOne
<1> QED
  BY <1>1, <1>4, <1>5

\* A header that is read: it starts a message, or two cells of what is missing
\* of an older one are made up for.
LEMMA HeaderRun ==
    ASSUME NEW v \in Versions, NEW r \in Readers, r.at # "size"
    PROVE  \E q \in Readers :
              /\ Leads(r, Header(v), q)
              /\ q.at # "size"
              /\ r.at = "magic" => q = Awaiting(Size[v], <<>>, r.have)
              /\ r.at = "data" => Owed(q) = IF Owed(r) <= 2 THEN 0 ELSE Owed(r) - 2
<1> DEFINE c == <<"magic", 0>>
           d == <<"size", Size[v]>>
<1>1. Size[v] \in Nat \ {0}
  BY PipeAssumption DEF Versions
<1>2. c \in Cells /\ d \in Cells /\ c[1] = "magic" /\ d[1] = "size" /\ d[2] = Size[v]
  BY <1>1 DEF Cells
<1>3. Header(v) = <<c>> \o <<d>>
  BY DEF Header
<1>4. <<c>> \in Seq(Cells) /\ <<d>> \in Seq(Cells)
  BY <1>2
<1> HIDE DEF c, d
<1>5. CASE r.at = "magic"
  <2> DEFINE p == Sized(r.have)
             q == Awaiting(Size[v], <<>>, r.have)
  <2>1. r.have \in Versions
    BY ReaderIs
  <2>2. p \in Readers /\ q \in Readers
    <3>1. <<>> \in Seq(Cells) /\ Len(<<>>) < Size[v]
      BY <1>1
    <3> QED
      BY <1>1, <2>1, <3>1, IdleIs, AwaitingIs
  <2>3. Moves(r, c, p)
    BY <1>2, <1>5 DEF Moves
  <2>4. p.at = "size" /\ p.have = r.have /\ q.at = "data"
    BY DEF Sized, Awaiting
  <2>5. Moves(p, d, q)
    BY <1>2, <2>4 DEF Moves
  <2> HIDE DEF p, q
  <2>6. Leads(r, Header(v), q)
    BY <1>2, <1>3, <1>4, <2>2, <2>3, <2>5, LeadsOne, LeadsOn
  <2> QED
    BY <1>5, <2>2, <2>4, <2>6 DEF q
<1>6. CASE r.at = "data"
  <2>1. PICK p \in Readers : Leads(r, <<c>>, p) /\ p.at # "size" /\ Owed(p) = Owed(r) - 1
    BY <1>2, <1>6, SwallowOne
  <2>2. Owed(r) \in Nat /\ Owed(r) > 0 /\ Owed(p) \in Nat
    BY <1>6, OwedIs
  <2>3. CASE p.at = "data"
    <3>1. PICK q \in Readers : Leads(p, <<d>>, q) /\ q.at # "size" /\ Owed(q) = Owed(p) - 1
      BY <1>2, <2>3, SwallowOne
    <3>2. Leads(r, Header(v), q)
      BY <1>3, <1>4, <2>1, <3>1, LeadsOn
    <3>3. Owed(p) > 0 /\ Owed(q) \in Nat
      BY <2>3, OwedIs
    <3>4. Owed(q) = IF Owed(r) <= 2 THEN 0 ELSE Owed(r) - 2
      BY <2>1, <2>2, <3>1, <3>3
    <3> QED
      BY <1>6, <3>1, <3>2, <3>4
  <2>4. CASE p.at = "magic"
    <3>1. Moves(p, d, p)
      BY <1>2, <2>4 DEF Moves
    <3>2. Leads(r, Header(v), p)
      BY <1>2, <1>3, <1>4, <2>1, <3>1, LeadsOne, LeadsOn
    <3>3. Owed(p) = 0
      BY <2>4, OwedIs
    <3>4. Owed(p) = IF Owed(r) <= 2 THEN 0 ELSE Owed(r) - 2
      BY <2>1, <2>2, <3>3
    <3> QED
      BY <1>6, <2>1, <3>2, <3>4
  <2> QED
    BY <2>1, <2>3, <2>4, ReaderIs
<1> QED
  BY <1>5, <1>6, ReaderIs

LEMMA Associative ==
    ASSUME NEW s \in Seq(Cells), NEW t \in Seq(Cells), NEW u \in Seq(Cells)
    PROVE  (s \o t) \o u = s \o (t \o u)
<1> DEFINE a == s \o t
           b == t \o u
           l == a \o u
           r == s \o b
           i == Len(s)
           j == Len(t)
           k == Len(u)
<1>1. i \in Nat /\ j \in Nat /\ k \in Nat
  OBVIOUS
<1>2. /\ a \in Seq(Cells) /\ Len(a) = i + j
      /\ \A n \in 1..(i + j) : a[n] = IF n <= i THEN s[n] ELSE t[n - i]
  BY ConcatProperties
<1>3. /\ b \in Seq(Cells) /\ Len(b) = j + k
      /\ \A n \in 1..(j + k) : b[n] = IF n <= j THEN t[n] ELSE u[n - j]
  BY ConcatProperties
<1> HIDE DEF a, b, i, j, k
<1>4. /\ l \in Seq(Cells) /\ Len(l) = (i + j) + k
      /\ \A n \in 1..((i + j) + k) : l[n] = IF n <= i + j THEN a[n] ELSE u[n - (i + j)]
  BY <1>2, ConcatProperties DEF k
<1>5. /\ r \in Seq(Cells) /\ Len(r) = i + (j + k)
      /\ \A n \in 1..(i + (j + k)) : r[n] = IF n <= i THEN s[n] ELSE b[n - i]
  BY <1>3, ConcatProperties DEF i
<1> HIDE DEF l, r
<1>6. ASSUME NEW n \in 1..((i + j) + k) PROVE l[n] = r[n]
  <2>1. n \in 1..(i + (j + k))
    BY <1>1
  <2>2. CASE n <= i
    <3>1. n <= i + j /\ n \in 1..(i + j)
      BY <1>1, <2>2
    <3> QED
      BY <1>2, <1>4, <1>5, <2>1, <2>2, <3>1
  <2>3. CASE ~(n <= i) /\ n <= i + j
    <3>1. n \in 1..(i + j) /\ n - i \in 1..(j + k) /\ n - i <= j
      BY <1>1, <2>3
    <3> QED
      BY <1>2, <1>3, <1>4, <1>5, <2>1, <2>3, <3>1
  <2>4. CASE ~(n <= i) /\ ~(n <= i + j)
    <3>1. n - i \in 1..(j + k) /\ ~(n - i <= j) /\ (n - i) - j = n - (i + j)
      BY <1>1, <2>4
    <3> QED
      BY <1>3, <1>4, <1>5, <2>1, <2>4, <3>1
  <2> QED
    BY <2>2, <2>3, <2>4
<1>7. (i + j) + k = i + (j + k)
  BY <1>1
<1>8. l = r
  BY <1>4, <1>5, <1>6, <1>7, SeqEqual
<1> QED
  BY <1>8 DEF l, r, a, b

LEMMA UptoIs ==
    ASSUME NEW x \in Seq(Cells), NEW n \in Nat
    PROVE  \E k \in 0..Len(x) : /\ Upto(x, n) = SubSeq(x, 1, k) /\ k <= n
                                /\ n >= Len(x) => k = Len(x)
<1>1. Len(x) \in Nat
  OBVIOUS
<1>2. (IF n < Len(x) THEN n ELSE Len(x)) \in 0..Len(x)
  BY <1>1
<1> QED
  BY <1>1, <1>2 DEF Upto

\* The first n cells, and the first k of the others.
LEMMA PrefixGrows ==
    ASSUME NEW x \in Seq(Cells), NEW n \in 0..Len(x), NEW k \in 0..Len(From(x, n))
    PROVE  /\ From(x, n) \in Seq(Cells) /\ Len(From(x, n)) = Len(x) - n
           /\ SubSeq(From(x, n), 1, k) \in Seq(Cells)
           /\ SubSeq(x, 1, n) \in Seq(Cells)
           /\ SubSeq(x, 1, n) \o SubSeq(From(x, n), 1, k) = SubSeq(x, 1, n + k)
<1> DEFINE y == From(x, n)
           s == SubSeq(x, 1, n)
           t == SubSeq(y, 1, k)
           u == SubSeq(x, 1, n + k)
<1>1. Len(x) \in Nat /\ n \in Nat
  OBVIOUS
<1>2. /\ y \in Seq(Cells) /\ Len(y) = Len(x) - n
      /\ \A i \in 1..(Len(x) - n) : y[i] = x[i + n]
  BY <1>1 DEF From
<1>3. s \in Seq(Cells) /\ Len(s) = n /\ \A i \in 1..n : s[i] = x[i]
  BY <1>1
<1> HIDE DEF y
<1>4. t \in Seq(Cells) /\ Len(t) = k /\ \A i \in 1..k : t[i] = y[i]
  BY <1>1, <1>2 DEF y
<1>5. n + k \in 0..Len(x) /\ k \in Nat /\ k <= Len(x) - n
  BY <1>1, <1>2 DEF y
<1>6. u \in Seq(Cells) /\ Len(u) = n + k /\ \A i \in 1..(n + k) : u[i] = x[i]
  BY <1>1, <1>5
<1> HIDE DEF s, t, u
<1>7. /\ s \o t \in Seq(Cells) /\ Len(s \o t) = n + k
      /\ \A i \in 1..(n + k) : (s \o t)[i] = IF i <= n THEN s[i] ELSE t[i - n]
  BY <1>3, <1>4, ConcatProperties
<1>8. ASSUME NEW i \in 1..(n + k) PROVE (s \o t)[i] = u[i]
  <2>1. CASE i <= n
    <3>1. i \in 1..n
      BY <1>1, <1>5, <2>1
    <3> QED
      BY <1>3, <1>6, <1>7, <2>1, <3>1
  <2>2. CASE ~(i <= n)
    <3>1. i - n \in 1..k /\ i - n \in 1..(Len(x) - n) /\ (i - n) + n = i
      BY <1>1, <1>5, <2>2
    <3> QED
      BY <1>2, <1>4, <1>6, <1>7, <2>2, <3>1
  <2> QED
    BY <2>1, <2>2
<1>9. s \o t = u
  BY <1>6, <1>7, <1>8, SeqEqual
<1> QED
  BY <1>2, <1>3, <1>4, <1>9 DEF y, s, t, u

\* Wherever it goes, what is written is a beginning of it, and all of it unless
\* an exception is raised.
LEMMA WriteStream ==
    ASSUME TypeOK, NEW x \in Seq(Cells)
    PROVE  \E n \in 0..Len(x) :
              /\ Write(x).pipe \o Write(x).buf = Stream \o SubSeq(x, 1, n)
              /\ Write(x).ok => n = Len(x)
<1> DEFINE part == Upto(x, BufCap - Len(buf))
           direct == IF Len(x) > BufCap THEN Upto(x, Room - Len(buf)) ELSE <<>>
           rest == From(x, Len(direct))
<1>0. /\ PipeCap \in Nat /\ BufCap \in Nat
      /\ pipe \in Seq(Cells) /\ Len(pipe) <= PipeCap /\ Len(pipe) \in Nat
      /\ buf \in Seq(Cells) /\ Len(buf) <= BufCap /\ Len(buf) \in Nat
      /\ Len(x) \in Nat
  BY PipeAssumption DEF TypeOK
<1>1. \A k \in 0..Len(x) : SubSeq(x, 1, k) \in Seq(Cells) /\ Len(SubSeq(x, 1, k)) = k
  BY <1>0
<1>2. CASE Len(buf) + Len(x) <= BufCap
  <2>1. Write(x).pipe = pipe /\ Write(x).buf = buf \o x
    BY <1>2 DEF Write
  <2>2. SubSeq(x, 1, Len(x)) = x /\ Len(x) \in 0..Len(x)
    BY <1>0, SubSeqFull
  <2>3. (pipe \o buf) \o x = pipe \o (buf \o x)
    BY <1>0, Associative
  <2> QED
    BY <2>1, <2>2, <2>3 DEF Stream
<1>3. CASE ~(Len(buf) + Len(x) <= BufCap) /\ Room < Len(buf)
  <2>1. Write(x).pipe = pipe /\ Write(x).buf = buf \o part /\ Write(x).ok = FALSE
    BY <1>3 DEF Write
  <2>2. BufCap - Len(buf) \in Nat
    BY <1>0
  <2>3. PICK k \in 0..Len(x) : part = SubSeq(x, 1, k)
    BY <2>2, UptoIs
  <2> HIDE DEF part
  <2>4. (pipe \o buf) \o part = pipe \o (buf \o part)
    BY <1>0, <1>1, <2>3, Associative
  <2> QED
    BY <2>1, <2>3, <2>4 DEF Stream
<1>4. CASE ~(Len(buf) + Len(x) <= BufCap) /\ ~(Room < Len(buf))
  <2>1. /\ Write(x).pipe = pipe \o buf \o direct /\ Write(x).buf = Upto(rest, BufCap)
        /\ Write(x).ok = (Len(rest) <= BufCap)
    BY <1>4 DEF Write
  <2>2. Room - Len(buf) \in Nat
    BY <1>0, <1>4 DEF Room
  <2>3. PICK k \in 0..Len(x) : direct = SubSeq(x, 1, k)
    <3>1. CASE Len(x) > BufCap
      BY <2>2, <3>1, UptoIs
    <3>2. CASE ~(Len(x) > BufCap)
      <4>1. SubSeq(x, 1, 0) = <<>> /\ 0 \in 0..Len(x)
        BY <1>0, SubSeqEmpty
      <4> QED
        BY <3>2, <4>1
    <3> QED
      BY <3>1, <3>2
  <2>4. Len(direct) = k /\ rest = From(x, k)
    BY <1>1, <2>3
  <2> HIDE DEF direct, rest
  <2>5. rest \in Seq(Cells) /\ Len(rest) = Len(x) - k /\ Len(rest) \in Nat
    <3>1. 0 \in 0..Len(From(x, k)) /\ From(x, k) \in Seq(Cells)
      BY <1>0, FromType
    <3> QED
      BY <1>0, <2>4, <3>1, PrefixGrows
  <2>6. PICK j \in 0..Len(rest) : /\ Upto(rest, BufCap) = SubSeq(rest, 1, j)
                                  /\ BufCap >= Len(rest) => j = Len(rest)
    BY <1>0, <2>5, UptoIs
  <2>7. /\ SubSeq(rest, 1, j) \in Seq(Cells)
        /\ SubSeq(x, 1, k) \o SubSeq(rest, 1, j) = SubSeq(x, 1, k + j)
    BY <2>4, <2>6, PrefixGrows
  <2>8. k + j \in 0..Len(x) /\ (j = Len(rest) => k + j = Len(x))
    BY <1>0, <2>5
  <2>9. ((pipe \o buf) \o direct) \o Upto(rest, BufCap) = (pipe \o buf) \o SubSeq(x, 1, k + j)
    <3>1. pipe \o buf \in Seq(Cells) /\ direct \in Seq(Cells)
      BY <1>0, <1>1, <2>3
    <3>2. ((pipe \o buf) \o direct) \o SubSeq(rest, 1, j)
          = (pipe \o buf) \o (direct \o SubSeq(rest, 1, j))
      BY <2>7, <3>1, Associative
    <3> QED
      BY <2>3, <2>6, <2>7, <3>2
  <2>10. Write(x).ok => k + j = Len(x)
    BY <1>0, <2>1, <2>5, <2>6, <2>8
  <2> QED
    BY <2>1, <2>8, <2>9, <2>10 DEF Stream
<1> QED
  BY <1>2, <1>3, <1>4

-----------------------------------------------------------------------------
(* The repair.  A message cut off leaves the reader short of its end; what  *)
(* follows is swallowed until the debt is paid, and the first copy pays     *)
(* it if the data does not shrink by more than two headers.                *)

\* The resend thread is sending as long as two copies are due, and nobody is
\* sending when the lock is free.
LeftInv ==
    /\ wpc = "free" => job.left = 0
    /\ job.left = 2 => rpc = "sending"
    /\ rpc = "sending" => wpc # "free"

BufInv == wpc = "free" /\ ~flagged => buf = <<>>

\* A new version of which nothing is written yet.
Fresh == wpc = "header" /\ rpc # "sending"

\* The debt is that of the latest version, or an older one of which a header was
\* already swallowed.
Debt(n) ==
    IF Fresh THEN \E u \in Versions : u < latest /\ n <= Size[u]
    ELSE n <= Size[latest] \/ \E u \in Versions : u < latest /\ n + 2 <= Size[u]

\* The first copy pays the debt.
FirstCopy(r) ==
    job.left = 2 => /\ wpc = "data" => Owed(r) <= Size[latest]
                    /\ wpc = "flush" => Owed(r) = 0

\* Where nobody is to send again, the reader will have the latest version, or
\* will read it in step with the writer.
Counted(r) ==
    ~flagged /\ job.left # 2 =>
        /\ wpc \in {"free", "flush"} => r = Idle(latest)
        /\ wpc = "header" => r.at = "magic"
        /\ wpc = "data" => r = Awaiting(Size[latest], <<>>, r.have)

Ends(r) == r.at # "size" /\ Debt(Owed(r)) /\ FirstCopy(r) /\ Counted(r)

Ahead == \E r \in Readers : Leads(View, Stream, r) /\ Ends(r)

\* A reader that spins leaves what it does not have in the pipe.
SpinInv ==
    \/ wpc \in {"header", "data"} \/ job.left = 2 \/ flagged
    \/ Stream # <<>> \/ have = latest

RepairInv ==
    /\ LeftInv
    /\ ~refused /\ ~closed /\ ~Shrunk => BufInv /\ IF reader.at = "spin" THEN SpinInv ELSE Ahead

LEMMA SizesAre ==
    ASSUME Inv
    PROVE  /\ latest \in Versions /\ \A u \in Versions : u \in Nat /\ Size[u] \in Nat \ {0}
           /\ job.left \in 0..2 /\ job \in [ver : Versions, left : 0..2]
           /\ pipe \in Seq(Cells) /\ buf \in Seq(Cells) /\ Stream \in Seq(Cells)
BY PipeAssumption DEF Inv, TypeOK, Versions, Stream

LEMMA NotShrunk ==
    ASSUME Inv, ~Shrunk
    PROVE  \A u \in Versions : u < latest => Size[u] <= Size[latest] + 4
<1>1. latest \in Nat /\ \A u \in Versions : u \in Nat /\ Size[u] \in Nat
  BY SizesAre, PipeAssumption DEF Versions
<1>2. latest \in Versions
  BY SizesAre
<1> QED
  BY <1>1, <1>2 DEF Shrunk

LEMMA ShrunkStays == ASSUME Inv, latest' \in {latest, latest + 1}, Shrunk PROVE Shrunk'
<1>1. latest \in Nat
  BY SizesAre DEF Versions
<1>2. 0..latest \subseteq 0..latest'
  BY <1>1
<1> QED
  BY <1>2 DEF Shrunk

\* The end of an update is the end of the job, or the second copy is next.
LEMMA EndUpdateIs ==
    ASSUME Inv, LeftInv, wpc # "free", EndUpdate
    PROVE  /\ job'.left = job.left - 1 /\ job'.left \in 0..1
           /\ LeftInv'
           /\ \/ job.left = 1 /\ wpc' = "free"
              \/ job.left = 2 /\ wpc' = "header" /\ rpc' = "sending"
<1>1. job.left \in 1..2 /\ job \in [ver : Versions, left : 0..2]
  BY SizesAre DEF Inv, Busy
<1>2. job'.left = job.left - 1
  BY <1>1 DEF EndUpdate
<1> QED
  BY <1>1, <1>2 DEF EndUpdate, LeftInv

LEMMA StartRepair ==
    ASSUME Inv, RepairInv, StartUpdate
    PROVE  RepairInv'
<1>1. /\ wpc = "free" /\ ~closed /\ latest' = latest + 1 /\ job'.left = 1 /\ wpc' = "header"
      /\ UNCHANGED <<pipe, buf, rpc, flagged, notified, reader, have, refused, closed>>
  BY DEF StartUpdate
<1>2. rpc # "sending" /\ job.left = 0
  BY <1>1 DEF RepairInv, LeftInv
<1>3. LeftInv'
  BY <1>1, <1>2 DEF LeftInv
<1>4. BufInv' /\ SpinInv'
  BY <1>1 DEF BufInv, SpinInv
<1>5. ASSUME Ahead PROVE Ahead'
  <2>1. PICK r \in Readers : Leads(View, Stream, r) /\ Ends(r)
    BY <1>5 DEF Ahead
  <2>2. View' = View /\ Stream' = Stream
    BY <1>1 DEF View, Stream
  <2>3. Fresh' /\ ~Fresh
    BY <1>1, <1>2 DEF Fresh
  <2>4. Owed(r) \in Nat
    BY OwedIs
  <2>5. Debt(Owed(r))'
    <3>1. Owed(r) <= Size[latest] \/ \E u \in Versions : u < latest /\ Owed(r) + 2 <= Size[u]
      BY <2>1, <2>3 DEF Ends, Debt
    <3>2. \E u \in Versions : u < latest + 1 /\ Owed(r) <= Size[u]
      BY <2>4, <3>1, SizesAre
    <3> QED
      BY <1>1, <2>3, <3>2 DEF Debt
  <2>6. FirstCopy(r)'
    BY <1>1 DEF FirstCopy
  <2>7. Counted(r)'
    <3>1. ~flagged => r.at = "magic"
      BY <1>1, <1>2, <2>1 DEF Ends, Counted, Idle
    <3> QED
      BY <1>1, <3>1 DEF Counted
  <2>8. Ends(r)'
    BY <2>1, <2>5, <2>6, <2>7 DEF Ends
  <2> QED
    BY <2>1, <2>2, <2>8 DEF Ahead
<1> QED
  BY <1>1, <1>3, <1>4, <1>5, ShrunkStays DEF RepairInv

LEMMA HeaderRepair ==
    ASSUME Inv, AgeInv, RepairInv, WriteHeader
    PROVE  RepairInv'
<1> DEFINE w == Write(Header(latest))
<1>1. job.ver = latest
  BY DEF WriteHeader, AgeInv
<1>2. /\ wpc = "header" /\ ~closed
      /\ pipe' = w.pipe /\ buf' = w.buf
      /\ refused' = (refused \/ ~w.ok)
      /\ IF w.ok THEN wpc' = "data" /\ UNCHANGED <<job, rpc>> ELSE EndUpdate
      /\ UNCHANGED <<latest, flagged, notified, reader, have, closed>>
  BY <1>1 DEF WriteHeader, Wrote
<1>3. Header(latest) \in Seq(Cells) /\ latest \in Versions
  BY SizesAre, MessageType
<1>4. PICK n \in 0..Len(Header(latest)) :
        /\ w.pipe \o w.buf = Stream \o SubSeq(Header(latest), 1, n)
        /\ w.ok => n = Len(Header(latest))
  BY <1>3, WriteStream DEF Inv
<1>5. w.ok => Stream' = Stream \o Header(latest)
  <2>1. SubSeq(Header(latest), 1, Len(Header(latest))) = Header(latest)
    BY <1>3, SubSeqFull
  <2> QED
    BY <1>2, <1>4, <2>1 DEF Stream
<1> HIDE DEF w
<1>6. LeftInv'
  <2>1. CASE w.ok
    BY <1>2, <2>1 DEF RepairInv, LeftInv
  <2>2. CASE ~w.ok
    BY <1>2, <2>2, EndUpdateIs DEF RepairInv
  <2> QED
    BY <2>1, <2>2
<1>7. ASSUME ~refused' PROVE ~refused /\ w.ok /\ wpc' = "data" /\ UNCHANGED <<job, rpc>>
  BY <1>2, <1>7
<1>8. ASSUME ~refused' PROVE BufInv' /\ SpinInv'
  BY <1>7, <1>8 DEF BufInv, SpinInv
<1>9. ASSUME ~refused', ~Shrunk, Ahead PROVE Ahead'
  <2>1. PICK r \in Readers : Leads(View, Stream, r) /\ Ends(r)
    BY <1>9 DEF Ahead
  <2>2. PICK q \in Readers :
          /\ Leads(r, Header(latest), q)
          /\ q.at # "size"
          /\ r.at = "magic" => q = Awaiting(Size[latest], <<>>, r.have)
          /\ r.at = "data" => Owed(q) = IF Owed(r) <= 2 THEN 0 ELSE Owed(r) - 2
    BY <1>3, <2>1, HeaderRun DEF Ends
  <2>3. Leads(View', Stream', q)
    <3>1. View' = View
      BY <1>2 DEF View
    <3>2. Leads(View, Stream \o Header(latest), q)
      BY <1>3, <2>1, <2>2, SizesAre, LeadsOn
    <3> QED
      BY <1>5, <1>7, <1>9, <3>1, <3>2
  <2>4. Owed(r) \in Nat /\ Owed(q) \in Nat
    BY OwedIs
  <2>5. r.at = "magic" => /\ q.at = "data" /\ q.need = Size[latest] /\ q.have = r.have
                          /\ Owed(q) = Size[latest]
    <3>1. Awaiting(Size[latest], <<>>, r.have).at = "data"
          /\ Awaiting(Size[latest], <<>>, r.have).need = Size[latest]
          /\ Awaiting(Size[latest], <<>>, r.have).have = r.have
          /\ Owed(Awaiting(Size[latest], <<>>, r.have)) = Size[latest] - 0
      BY DEF Awaiting, Owed
    <3> QED
      BY <1>3, <2>2, <3>1, SizesAre
  <2>6. Size[latest] \in Nat /\ \A u \in Versions : u \in Nat /\ Size[u] \in Nat
    BY SizesAre
  <2>7. r.at = "magic" \/ r.at = "data"
    BY <2>1, ReaderIs DEF Ends
  <2>8. Debt(Owed(q))'
    <3>1. Owed(q) <= Size[latest] \/ \E u \in Versions : u < latest /\ Owed(q) + 2 <= Size[u]
      <4>1. CASE r.at = "magic"
        BY <2>5, <2>6, <4>1
      <4>2. CASE r.at = "data" /\ Owed(r) <= 2
        BY <2>2, <2>6, <4>2
      <4>3. CASE r.at = "data" /\ ~(Owed(r) <= 2)
        <5>1. Owed(q) + 2 = Owed(r)
          BY <2>2, <2>4, <4>3
        <5>2. \/ Owed(r) <= Size[latest]
              \/ \E u \in Versions : u < latest /\ Owed(r) <= Size[u]
              \/ \E u \in Versions : u < latest /\ Owed(r) + 2 <= Size[u]
          BY <2>1 DEF Ends, Debt
        <5> QED
          BY <2>4, <2>6, <5>1, <5>2
      <4> QED
        BY <2>7, <4>1, <4>2, <4>3
    <3>2. ~Fresh'
      BY <1>7, <1>9 DEF Fresh
    <3> QED
      BY <1>2, <3>1, <3>2 DEF Debt
  <2>9. FirstCopy(q)'
    <3>1. ASSUME job.left = 2 PROVE Owed(q) <= Size[latest]
      <4>1. ~Fresh
        BY <3>1 DEF RepairInv, LeftInv, Fresh
      <4>2. Owed(r) <= Size[latest] \/ \E u \in Versions : u < latest /\ Owed(r) + 2 <= Size[u]
        BY <2>1, <4>1 DEF Ends, Debt
      <4>3. Owed(r) <= Size[latest] + 2
        <5>1. \A u \in Versions : u < latest => Size[u] <= Size[latest] + 4
          BY <1>9, NotShrunk
        <5> QED
          BY <1>3, <2>4, <2>6, <4>2, <5>1
      <4> QED
        BY <2>2, <2>4, <2>5, <2>6, <2>7, <4>3
    <3> QED
      BY <1>2, <1>7, <1>9, <3>1 DEF FirstCopy
  <2>10. Counted(q)'
    <3>1. ASSUME ~flagged, job.left # 2 PROVE q = Awaiting(Size[latest], <<>>, q.have)
      <4>1. r.at = "magic"
        BY <1>2, <2>1, <3>1 DEF Ends, Counted
      <4> QED
        BY <2>2, <2>5, <4>1
    <3> QED
      BY <1>2, <1>7, <1>9, <3>1 DEF Counted
  <2>11. Ends(q)'
    BY <2>2, <2>8, <2>9, <2>10 DEF Ends
  <2> QED
    BY <2>3, <2>11 DEF Ahead
<1> QED
  BY <1>2, <1>6, <1>7, <1>8, <1>9, ShrunkStays DEF RepairInv

LEMMA DataRepair ==
    ASSUME Inv, AgeInv, RepairInv, WriteData
    PROVE  RepairInv'
<1> DEFINE w == Write(Data(latest))
<1>1. job.ver = latest
  BY DEF WriteData, AgeInv
<1>2. /\ wpc = "data" /\ ~closed
      /\ pipe' = w.pipe /\ buf' = w.buf
      /\ flagged' = (flagged \/ ~w.ok)
      /\ IF w.ok THEN wpc' = "flush" /\ UNCHANGED <<job, rpc>> ELSE EndUpdate
      /\ UNCHANGED <<latest, reader, have, refused, closed>>
  BY <1>1 DEF WriteData, Wrote, FlagIf
<1>3. /\ Data(latest) \in Seq(Cells) /\ latest \in Versions
      /\ Size[latest] \in Nat \ {0} /\ Len(Data(latest)) = Size[latest]
  <2>1. Size[latest] \in Nat \ {0} /\ latest \in Versions
    BY SizesAre
  <2> QED
    BY <2>1, MessageType, PartOfData
<1>4. PICK n \in 0..Len(Data(latest)) :
        /\ w.pipe \o w.buf = Stream \o SubSeq(Data(latest), 1, n)
        /\ w.ok => n = Len(Data(latest))
  BY <1>3, WriteStream DEF Inv
<1>5. n \in Nat /\ n <= Size[latest] /\ (w.ok => n = Size[latest])
  BY <1>3, <1>4
<1>6. Stream' = Stream \o Part(latest, n)
  BY <1>2, <1>3, <1>4, <1>5, PartOfData DEF Stream
<1> HIDE DEF w
<1>7. ASSUME ~w.ok
      PROVE  /\ flagged' /\ job'.left \in 0..1 /\ LeftInv' /\ ~Fresh'
             /\ wpc' # "data"
  BY <1>2, <1>7, EndUpdateIs DEF RepairInv, Fresh
<1>8. ASSUME w.ok
      PROVE  /\ wpc' = "flush" /\ UNCHANGED <<job, rpc, flagged>> /\ LeftInv' /\ ~Fresh'
             /\ Stream' # <<>>
  <2>1. flagged' = flagged
    BY <1>2, <1>8, Zenon DEF Inv, TypeOK
  <2>2. Stream' # <<>>
    <3>1. Part(latest, n) \in Seq(Cells) /\ Len(Part(latest, n)) = n
      BY <1>3, <1>5, PartOfData
    <3>2. Stream \in Seq(Cells)
      BY SizesAre
    <3>3. Len(Stream \o Part(latest, n)) = Len(Stream) + n /\ Len(Stream) \in Nat
      <4>1. \A x, y \in Seq(Cells) : Len(x \o y) = Len(x) + Len(y) /\ Len(x) \in Nat
        OBVIOUS
      <4> QED
        BY <3>1, <3>2, <4>1
    <3>4. n > 0
      BY <1>3, <1>5, <1>8
    <3>5. Len(Stream') # 0
      BY <1>5, <1>6, <3>3, <3>4
    <3> QED
      BY <3>5
  <2> QED
    BY <1>2, <1>8, <2>1, <2>2 DEF RepairInv, LeftInv, Fresh
<1>9. BufInv' /\ SpinInv'
  BY <1>7, <1>8 DEF BufInv, SpinInv
<1>10. ASSUME Ahead PROVE Ahead'
  <2>1. PICK r \in Readers : Leads(View, Stream, r) /\ Ends(r)
    BY <1>10 DEF Ahead
  <2>2. PICK q \in Readers :
          /\ Leads(r, Part(latest, n), q)
          /\ q.at # "size"
          /\ Owed(q) = IF n < Owed(r) THEN Owed(r) - n ELSE 0
          /\ r.at = "data" /\ r.need = Size[latest] /\ r.got = <<>> /\ n = Size[latest]
             => q = Idle(latest)
    BY <1>3, <1>5, <2>1, DataRun DEF Ends
  <2>3. Leads(View', Stream', q)
    <3>1. View' = View
      BY <1>2 DEF View
    <3>2. Part(latest, n) \in Seq(Cells)
      BY <1>3, <1>5, PartOfData
    <3> QED
      BY <1>6, <2>1, <2>2, <3>1, <3>2, SizesAre, LeadsOn
  <2>4. Owed(r) \in Nat /\ Owed(q) \in Nat /\ Owed(q) <= Owed(r)
    <3>1. Owed(r) \in Nat /\ Owed(q) \in Nat
      BY OwedIs
    <3> QED
      BY <1>5, <2>2, <3>1
  <2>5. Debt(Owed(q))'
    <3>1. Owed(r) <= Size[latest] \/ \E u \in Versions : u < latest /\ Owed(r) + 2 <= Size[u]
      BY <1>2, <2>1 DEF Ends, Debt, Fresh
    <3>2. Owed(q) <= Size[latest] \/ \E u \in Versions : u < latest /\ Owed(q) + 2 <= Size[u]
      BY <2>4, <3>1, SizesAre
    <3> QED
      BY <1>2, <1>7, <1>8, <3>2 DEF Debt
  <2>6. CASE w.ok
    <3>1. FirstCopy(q)'
      <4>1. ASSUME job.left = 2 PROVE Owed(q) = 0
        <5>1. Owed(r) <= Size[latest]
          BY <1>2, <2>1, <4>1 DEF Ends, FirstCopy
        <5> QED
          BY <1>3, <1>5, <2>2, <2>4, <2>6, <5>1
      <4> QED
        BY <1>8, <2>6, <4>1 DEF FirstCopy
    <3>2. Counted(q)'
      <4>1. ASSUME ~flagged, job.left # 2 PROVE q = Idle(latest)
        <5>1. r = Awaiting(Size[latest], <<>>, r.have)
          BY <1>2, <2>1, <4>1 DEF Ends, Counted
        <5>2. r.at = "data" /\ r.need = Size[latest] /\ r.got = <<>>
          BY <5>1 DEF Awaiting
        <5> QED
          BY <1>5, <2>2, <2>6, <5>2
      <4> QED
        BY <1>2, <1>8, <2>6, <4>1 DEF Counted
    <3> QED
      BY <2>2, <2>3, <2>5, <3>1, <3>2 DEF Ahead, Ends
  <2>7. CASE ~w.ok
    <3>1. FirstCopy(q)' /\ Counted(q)'
      BY <1>7, <2>7 DEF FirstCopy, Counted
    <3> QED
      BY <2>2, <2>3, <2>5, <3>1 DEF Ahead, Ends
  <2> QED
    BY <2>6, <2>7
<1> QED
  BY <1>2, <1>7, <1>8, <1>9, <1>10, ShrunkStays DEF RepairInv

LEMMA FlushRepair ==
    ASSUME Inv, AgeInv, RepairInv, Flush
    PROVE  RepairInv'
<1> DEFINE ok == Len(buf) <= Room
<1>1. /\ wpc = "flush" /\ ~closed
      /\ IF ok THEN pipe' = pipe \o buf /\ buf' = <<>> ELSE UNCHANGED <<pipe, buf>>
      /\ flagged' = (flagged \/ ~ok)
      /\ EndUpdate
      /\ UNCHANGED <<latest, reader, have, refused, closed>>
  BY DEF Flush, FlagIf
<1> HIDE DEF ok
<1>0. (flagged => flagged') /\ (~flagged' => ~flagged /\ ok)
  BY <1>1, Zenon
<1>2. /\ job'.left \in 0..1 /\ LeftInv'
      /\ \/ job.left = 1 /\ wpc' = "free"
         \/ job.left = 2 /\ wpc' = "header" /\ rpc' = "sending"
  BY <1>1, EndUpdateIs DEF RepairInv
<1>3. ~Fresh /\ ~Fresh'
  BY <1>1, <1>2 DEF Fresh
<1>4. Stream' = Stream
  <2>1. CASE ok
    <3>1. pipe \o buf \in Seq(Cells)
      BY SizesAre DEF Stream
    <3>2. (pipe \o buf) \o <<>> = pipe \o buf
      BY <3>1, ConcatEmptySeq
    <3> QED
      BY <1>1, <2>1, <3>2 DEF Stream
  <2>2. CASE ~ok
    BY <1>1, <2>2 DEF Stream
  <2> QED
    BY <2>1, <2>2
<1>5. BufInv'
  BY <1>1, <1>2 DEF BufInv
<1>6. ASSUME SpinInv PROVE SpinInv'
  BY <1>1, <1>0, <1>2, <1>4, <1>6 DEF SpinInv
<1>7. ASSUME Ahead PROVE Ahead'
  <2>1. PICK r \in Readers : Leads(View, Stream, r) /\ Ends(r)
    BY <1>7 DEF Ahead
  <2>2. View' = View
    BY <1>1 DEF View
  <2>3. Debt(Owed(r))'
    BY <1>1, <1>3, <2>1 DEF Ends, Debt
  <2>4. FirstCopy(r)'
    BY <1>2 DEF FirstCopy
  <2>5. Counted(r)'
    <3>1. CASE job.left = 1 /\ wpc' = "free"
      BY <1>1, <1>0, <2>1, <3>1 DEF Ends, Counted
    <3>2. CASE job.left = 2 /\ wpc' = "header"
      <4>1. Owed(r) = 0
        BY <1>1, <2>1, <3>2 DEF Ends, FirstCopy
      <4>2. r.at = "magic"
        BY <2>1, <4>1, OwedIs, ReaderIs DEF Ends
      <4> QED
        BY <3>2, <4>2 DEF Counted
    <3> QED
      BY <1>2, <3>1, <3>2
  <2> QED
    BY <1>4, <2>1, <2>2, <2>3, <2>4, <2>5 DEF Ahead, Ends
<1> QED
  BY <1>1, <1>2, <1>5, <1>6, <1>7, ShrunkStays DEF RepairInv

LEMMA ResendRepair ==
    ASSUME Inv, RepairInv, Resend
    PROVE  RepairInv'
<1>1. UNCHANGED <<pipe, buf, latest, reader, have, refused, closed>>
  BY DEF Resend, ResendGet, ResendStart
<1>2. View' = View /\ Stream' = Stream
  BY <1>1 DEF View, Stream
<1>3. CASE \/ ResendGet
           \/ ResendStart /\ ~flagged
  <2>1. /\ UNCHANGED <<wpc, job, flagged>> /\ rpc # "sending" /\ rpc' # "sending"
    BY <1>3 DEF ResendGet, ResendStart, Inv, TypeOK
  <2>2. LeftInv'
    BY <2>1 DEF RepairInv, LeftInv
  <2>3. (BufInv => BufInv') /\ (SpinInv => SpinInv')
    BY <1>1, <1>2, <2>1 DEF BufInv, SpinInv
  <2>4. Fresh' <=> Fresh
    BY <2>1 DEF Fresh
  <2>5. ASSUME NEW r \in Readers, Ends(r) PROVE Ends(r)'
    <3>1. Debt(Owed(r))'
      BY <1>1, <2>4, <2>5 DEF Ends, Debt
    <3>2. FirstCopy(r)' /\ Counted(r)'
      BY <1>1, <2>1, <2>5 DEF Ends, FirstCopy, Counted
    <3> QED
      BY <2>5, <3>1, <3>2 DEF Ends
  <2>6. Ahead => Ahead'
    BY <1>2, <2>5 DEF Ahead
  <2> QED
    BY <1>1, <2>2, <2>3, <2>6, ShrunkStays DEF RepairInv
<1>4. CASE ResendStart /\ flagged
  <2>1. wpc = "free" /\ job'.left = 2 /\ wpc' = "header" /\ rpc' = "sending"
    BY <1>4 DEF ResendStart, Copies
  <2>2. LeftInv'
    BY <2>1 DEF LeftInv
  <2>3. BufInv' /\ SpinInv'
    BY <2>1 DEF BufInv, SpinInv
  <2>4. ~Fresh' /\ ~Fresh
    BY <2>1 DEF Fresh
  <2>5. ASSUME NEW r \in Readers, Ends(r) PROVE Ends(r)'
    <3>1. Debt(Owed(r))'
      BY <1>1, <2>4, <2>5 DEF Ends, Debt
    <3>2. FirstCopy(r)' /\ Counted(r)'
      BY <2>1 DEF FirstCopy, Counted
    <3> QED
      BY <2>5, <3>1, <3>2 DEF Ends
  <2>6. Ahead => Ahead'
    BY <1>2, <2>5 DEF Ahead
  <2> QED
    BY <1>1, <2>2, <2>3, <2>6, ShrunkStays DEF RepairInv
<1> QED
  BY <1>3, <1>4 DEF Resend

LEMMA HeadOfStream ==
    ASSUME Inv, pipe # <<>>
    PROVE  Stream # <<>> /\ Head(Stream) = Head(pipe) /\ Tail(Stream) = Tail(pipe) \o buf
<1> DEFINE m == Len(pipe)
           n == Len(buf)
           s == pipe \o buf
           l == Tail(s)
           t == Tail(pipe)
           r == t \o buf
<1>1. m \in Nat \ {0} /\ n \in Nat /\ pipe \in Seq(Cells) /\ buf \in Seq(Cells)
  BY SizesAre
<1>2. /\ s \in Seq(Cells) /\ Len(s) = m + n
      /\ \A i \in 1..(m + n) : s[i] = IF i <= m THEN pipe[i] ELSE buf[i - m]
  BY <1>1, ConcatProperties
<1>3. t \in Seq(Cells) /\ Len(t) = m - 1 /\ \A i \in 1..(m - 1) : t[i] = pipe[i + 1]
  BY <1>1
<1> HIDE DEF m, n, s, t
<1>4. s # <<>> /\ Head(s) = pipe[1]
  <2>1. 1 \in 1..(m + n) /\ 1 <= m /\ m + n # 0
    BY <1>1
  <2> QED
    BY <1>2, <2>1
<1>5. l \in Seq(Cells) /\ Len(l) = (m + n) - 1 /\ \A i \in 1..((m + n) - 1) : l[i] = s[i + 1]
  BY <1>1, <1>2, <1>4
<1>6. /\ r \in Seq(Cells) /\ Len(r) = (m - 1) + n
      /\ \A i \in 1..((m - 1) + n) : r[i] = IF i <= m - 1 THEN t[i] ELSE buf[i - (m - 1)]
  <2>1. Len(buf) = n
    BY DEF n
  <2>2. /\ r \in Seq(Cells) /\ Len(r) = Len(t) + Len(buf)
        /\ \A i \in 1..(Len(t) + Len(buf)) :
              r[i] = IF i <= Len(t) THEN t[i] ELSE buf[i - Len(t)]
    BY <1>1, <1>3, ConcatProperties
  <2>3. Len(t) = m - 1
    BY <1>3
  <2> HIDE DEF r
  <2> QED
    BY <2>1, <2>2, <2>3
<1> HIDE DEF l, r
<1>7. ASSUME NEW i \in 1..((m + n) - 1) PROVE l[i] = r[i]
  <2>1. /\ i + 1 \in 1..(m + n) /\ i \in 1..((m - 1) + n)
        /\ (i + 1 <= m <=> i <= m - 1) /\ (i <= m - 1 => i \in 1..(m - 1))
        /\ (i + 1) - m = i - (m - 1)
    BY <1>1
  <2>2. CASE i <= m - 1
    BY <1>2, <1>3, <1>5, <1>6, <2>1, <2>2
  <2>3. CASE ~(i <= m - 1)
    BY <1>2, <1>5, <1>6, <2>1, <2>3
  <2> QED
    BY <2>2, <2>3
<1>8. (m + n) - 1 = (m - 1) + n
  BY <1>1
<1>9. l = r
  BY <1>5, <1>6, <1>7, <1>8, SeqEqual
<1>10. Head(pipe) = pipe[1]
  BY <1>1
<1> QED
  BY <1>4, <1>9, <1>10 DEF Stream, s, l, r, t

\* The reader goes where the stream leads it, unless it gives up.
LEMMA ReadMoves ==
    ASSUME Inv, ReadCell, NEW p \in Readers, Moves(View, Head(pipe), p), View \in Readers
    PROVE  \/ View' = p
           \/ reader'.at = "spin" /\ have' = have /\ p = View
<1> DEFINE c == Head(pipe)
           got == Append(reader.got, c)
<1>1. /\ View.at = reader.at /\ View.need = reader.need /\ View.got = reader.got
      /\ View.have = have
  BY DEF View
<1>2. /\ have \in Versions /\ reader.need \in Nat /\ Len(reader.got) \in Nat
      /\ reader.at \in {"magic", "size", "data"}
      /\ reader.at # "data" => reader.need = 0 /\ reader.got = <<>>
  <2>1. View \in States /\ Fit(View)
    BY DEF Readers
  <2>2. View.at \in {"magic", "size", "data"} /\ View.need \in Nat /\ View.got \in Seq(Cells)
        /\ View.have \in Versions
    BY <2>1 DEF States
  <2>3. Len(View.got) \in Nat
    BY <2>2
  <2>4. View.at # "data" => View.need = 0 /\ View.got = <<>>
    BY <2>1 DEF Fit
  <2> QED
    BY <1>1, <2>2, <2>3, <2>4
<1>3. Len(got) = Len(reader.got) + 1
  <2>1. reader.got \in Seq(Cells)
    BY DEF Inv, TypeOK
  <2> QED
    BY <2>1
<1> HIDE DEF c
<1>4. View' = [at |-> reader'.at, need |-> reader'.need, got |-> reader'.got, have |-> have']
  BY DEF View
<1>5. CASE reader.at = "magic"
  <2>1. reader' = (IF c[1] = "magic" THEN [Seek(0) EXCEPT !.at = "size"] ELSE SeekOn)
        /\ have' = have
    BY <1>5 DEF ReadCell, c
  <2>2. CASE c[1] = "magic"
    <3>1. p = Sized(have)
      BY <1>1, <1>5, <2>2 DEF Moves, c
    <3>2. reader'.at = "size" /\ reader'.need = 0 /\ reader'.got = <<>>
      BY <2>1, <2>2 DEF Seek
    <3> QED
      BY <1>4, <2>1, <3>1, <3>2 DEF Sized
  <2>3. CASE c[1] # "magic"
    <3>1. p = View
      BY <1>1, <1>5, <2>3 DEF Moves, c
    <3>2. CASE reader.skipped < Limit
      <4>1. reader'.at = "magic" /\ reader'.need = 0 /\ reader'.got = <<>>
        BY <2>1, <2>3, <3>2 DEF SeekOn, Seek
      <4>2. View' = View
        BY <1>2, <1>4, <1>5, <2>1, <4>1 DEF View
      <4> QED
        BY <3>1, <4>2
    <3>3. CASE ~(reader.skipped < Limit)
      <4>1. reader' = [reader EXCEPT !.at = "spin"]
        BY <2>1, <2>3, <3>3 DEF SeekOn
      <4>2. reader'.at = "spin"
        BY <4>1 DEF Inv, TypeOK
      <4> QED
        BY <2>1, <3>1, <4>2
    <3> QED
      BY <3>2, <3>3
  <2> QED
    BY <2>2, <2>3
<1>6. CASE reader.at = "size"
  <2>1. c[1] = "size" /\ p = Awaiting(c[2], <<>>, have)
    BY <1>1, <1>6 DEF Moves, c
  <2>2. reader' = [Seek(0) EXCEPT !.at = "data", !.need = c[2]] /\ have' = have
    BY <1>6, <2>1 DEF ReadCell, c
  <2>3. reader'.at = "data" /\ reader'.need = c[2] /\ reader'.got = <<>>
    BY <2>2 DEF Seek
  <2> QED
    BY <1>4, <2>1, <2>2, <2>3 DEF Awaiting
<1>7. CASE reader.at = "data" /\ Len(reader.got) + 1 < reader.need
  <2>1. p = Awaiting(reader.need, got, have)
    BY <1>1, <1>2, <1>7 DEF Moves, c
  <2>2. reader' = [reader EXCEPT !.got = got] /\ have' = have
    BY <1>2, <1>3, <1>7 DEF ReadCell, c
  <2>3. reader'.at = "data" /\ reader'.need = reader.need /\ reader'.got = got
    BY <1>7, <2>2 DEF Inv, TypeOK
  <2> QED
    BY <1>4, <2>1, <2>2, <2>3 DEF Awaiting
<1>8. CASE reader.at = "data" /\ ~(Len(reader.got) + 1 < reader.need)
  <2>1. Len(reader.got) + 1 = reader.need /\ p = Idle(Told(got, have))
    BY <1>1, <1>2, <1>8 DEF Moves, c
  <2>2. /\ have' \in (IF Loaded(got) = {} THEN {have} ELSE Loaded(got))
        /\ reader' = Seek(0)
    BY <1>2, <1>3, <1>8, <2>1 DEF ReadCell, c
  <2>3. have' = Told(got, have)
    <3>1. CASE Loaded(got) = {}
      BY <2>2, <3>1 DEF Told
    <3>2. CASE Loaded(got) # {}
      BY <1>2, <2>2, <3>2, ToldIs
    <3> QED
      BY <3>1, <3>2
  <2> QED
    BY <1>4, <2>1, <2>2, <2>3 DEF Idle, Seek
<1> QED
  BY <1>2, <1>5, <1>6, <1>7, <1>8

LEMMA ReadRepair ==
    ASSUME Inv, RepairInv, Read
    PROVE  RepairInv'
<1>1. UNCHANGED <<buf, latest, wpc, job, rpc, flagged, refused, closed>>
  BY DEF Read, ReadCell, ReadEof, writerVars
<1>2. LeftInv' /\ (BufInv => BufInv')
  BY <1>1 DEF RepairInv, LeftInv, BufInv
<1>3. CASE ReadEof
  BY <1>1, <1>2, <1>3 DEF ReadEof, RepairInv
<1>4. CASE ReadCell
  <2>1. pipe # <<>> /\ pipe' = Tail(pipe) /\ reader.at # "spin"
    BY <1>4 DEF ReadCell
  <2>2. ASSUME Ahead PROVE IF reader'.at = "spin" THEN SpinInv' ELSE Ahead'
    <3>1. PICK r \in Readers : Leads(View, Stream, r) /\ Ends(r)
      BY <2>2 DEF Ahead
    <3>2. Stream # <<>> /\ Head(Stream) = Head(pipe) /\ Tail(Stream) = Stream'
      <4>1. Stream' = Tail(pipe) \o buf
        BY <1>1, <2>1 DEF Stream
      <4> QED
        BY <2>1, <4>1, HeadOfStream
    <3>3. PICK p \in Readers : Moves(View, Head(pipe), p) /\ Leads(p, Stream', r)
      BY <3>1, <3>2, SizesAre, LeadsTail
    <3>4. View \in Readers
      <4>1. Len(Stream) \in Nat
        BY SizesAre
      <4> QED
        BY <3>1, <4>1 DEF Leads
    <3>5. \/ View' = p
          \/ reader'.at = "spin" /\ have' = have /\ p = View
      BY <1>4, <3>3, <3>4, ReadMoves
    <3>6. Ends(r)'
      BY <1>1, <3>1 DEF Ends, Debt, Fresh, FirstCopy, Counted
    <3>7. CASE reader'.at # "spin"
      BY <3>3, <3>5, <3>6, <3>7 DEF Ahead
    <3>8. CASE reader'.at = "spin"
      <4>1. have' = have /\ p = View
        <5>1. View'.at = "spin"
          BY <3>8 DEF View
        <5>2. p.at # "spin"
          BY ReaderIs
        <5> QED
          BY <3>5, <5>1, <5>2
      <4>2. ASSUME Stream' = <<>>, wpc \in {"free", "flush"}, job.left # 2, ~flagged
            PROVE  have = latest
        <5>1. r = View
          BY <3>3, <3>4, <4>1, <4>2, LeadsNowhere
        <5>2. r = Idle(latest)
          BY <3>1, <4>2 DEF Ends, Counted
        <5> QED
          BY <5>1, <5>2 DEF View, Idle
      <4>3. wpc \in {"free", "header", "data", "flush"}
        BY DEF Inv, TypeOK
      <4> QED
        BY <1>1, <3>8, <4>1, <4>2, <4>3 DEF SpinInv
    <3> QED
      BY <3>7, <3>8
  <2> QED
    BY <1>1, <1>2, <2>1, <2>2, ShrunkStays DEF RepairInv
<1> QED
  BY <1>3, <1>4 DEF Read

LEMMA NextRepair ==
    Inv /\ AgeInv /\ RepairInv /\ [Next]_vars => RepairInv'
<1> SUFFICES ASSUME Inv, AgeInv, RepairInv, [Next]_vars PROVE RepairInv'
  OBVIOUS
<1>1. CASE MasterGone
  BY <1>1 DEF MasterGone, RepairInv, LeftInv, writerVars
<1>2. CASE UNCHANGED vars
  <2>1. UNCHANGED <<pipe, buf, latest, wpc, job, rpc, flagged, reader, have, refused, closed>>
    BY <1>2 DEF vars, writerVars
  <2>2. View' = View /\ Stream' = Stream
    BY <2>1 DEF View, Stream
  <2>3. \A r : Ends(r)' <=> Ends(r)
    BY <2>1 DEF Ends, Debt, Fresh, FirstCopy, Counted
  <2>4. Ahead => Ahead'
    BY <2>2, <2>3 DEF Ahead
  <2>5. LeftInv' /\ (BufInv => BufInv') /\ (SpinInv => SpinInv')
    BY <2>1, <2>2 DEF RepairInv, LeftInv, BufInv, SpinInv
  <2> QED
    BY <2>1, <2>4, <2>5, ShrunkStays DEF RepairInv
<1> QED
  BY <1>1, <1>2, StartRepair, HeaderRepair, DataRepair, FlushRepair, ResendRepair, ReadRepair
     DEF Next, Send

LEMMA InitRepair == Init => RepairInv
<1> SUFFICES ASSUME Init PROVE RepairInv
  OBVIOUS
<1>1. /\ pipe = <<>> /\ buf = <<>> /\ latest = 0 /\ have = 0
      /\ wpc = "free" /\ rpc = "wait" /\ job.left = 0 /\ reader = Seek(0)
  BY DEF Init
<1>2. 0 \in Versions /\ Size[0] \in Nat
  BY PipeAssumption DEF Versions
<1>3. View = Idle(0)
  BY <1>1 DEF View, Idle, Seek
<1>4. Stream = <<>>
  BY <1>1 DEF Stream
<1>5. Idle(0) \in Readers /\ Leads(Idle(0), <<>>, Idle(0))
  BY <1>2, IdleIs, LeadsNowhere
<1>6. Ends(Idle(0))
  <2>1. Idle(0).at = "magic" /\ Owed(Idle(0)) = 0
    BY DEF Idle, Owed
  <2>2. Debt(Owed(Idle(0)))
    BY <1>1, <1>2, <2>1 DEF Debt, Fresh
  <2> QED
    BY <1>1, <2>1, <2>2 DEF Ends, FirstCopy, Counted
<1>7. Ahead
  BY <1>3, <1>4, <1>5, <1>6 DEF Ahead
<1>8. reader.at # "spin"
  BY <1>1 DEF Seek
<1> QED
  BY <1>1, <1>7, <1>8 DEF RepairInv, LeftInv, BufInv

\* When nothing is under way the reader is where the stream leads it.
LEMMA RepairDelivers ==
    ASSUME Inv, RepairInv
    PROVE  RepairedUnlessRefused
<1> SUFFICES ASSUME ~refused, ~Shrunk, Quiet PROVE have = latest
  BY DEF RepairedUnlessRefused, DeliveredWhenQuiet
<1>1. wpc = "free" /\ rpc = "wait" /\ ~notified /\ ~closed /\ pipe = <<>>
  BY DEF Quiet
<1>2. ~flagged /\ job.left = 0
  BY <1>1 DEF Inv, Heard, RepairInv, LeftInv
<1>3. Stream = <<>>
  BY <1>1, <1>2 DEF RepairInv, BufInv, Stream
<1>4. CASE reader.at = "spin"
  BY <1>1, <1>2, <1>3, <1>4 DEF RepairInv, SpinInv
<1>5. CASE reader.at # "spin"
  <2>1. PICK r \in Readers : Leads(View, <<>>, r) /\ Ends(r)
    BY <1>1, <1>3, <1>5 DEF RepairInv, Ahead
  <2>2. View \in Readers
    BY <2>1 DEF Leads
  <2>3. r = View
    BY <2>1, <2>2, LeadsNowhere
  <2>4. r = Idle(latest)
    BY <1>1, <1>2, <2>1 DEF Ends, Counted
  <2> QED
    BY <2>3, <2>4 DEF View, Idle
<1> QED
  BY <1>4, <1>5

\* For any sizes of pipe, buffer and data and any limit of readuntil: as long as
\* no header was refused and the data has not shrunk by more than two headers, a
\* worker that nobody is sending to has what the master has, whatever was cut
\* off by a full pipe ("writing 2 times to ensure fix of client reading pattern").
THEOREM TwoCopiesRepair == Spec => []RepairedUnlessRefused
<1>1. Inv /\ AgeInv /\ RepairInv /\ [Next]_vars => RepairInv'
  BY NextRepair
<1>2. Inv /\ RepairInv => RepairedUnlessRefused
  BY RepairDelivers
<1> QED
  BY <1>1, <1>2, InitInv, NextInv, InitAge, NextAge, InitRepair, PTL DEF Spec

=============================================================================
