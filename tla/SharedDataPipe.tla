---------------------------- MODULE SharedDataPipe ----------------------------
(***************************************************************************)
(* The pipe from the master to one worker, below the whole messages of     *)
(* UpstreamSync: a message is a header (magic and size) and data, written  *)
(* to a pipe that may be full; the reader looks for the magic, reads the   *)
(* size and then that many bytes, whatever they are.                       *)
(*                                                                         *)
(* The stream is cut into cells: the magic, the size and a few cells of    *)
(* data, each standing for a run of bytes.  The data is a version of the   *)
(* upstreams; a later version may be longer or shorter.                    *)
(***************************************************************************)
EXTENDS Naturals, Sequences

CONSTANTS
    PipeCap,    \* cells the pipe holds (PIPE_BUFFER_SIZE)
    BufCap,     \* cells the buffered writer around it holds
    Limit,      \* cells readuntil looks through before it gives up
    Size,       \* cells of the data of each version
    MaxVersion  \* bound: updates sent

ASSUME PipeAssumption ==
    /\ PipeCap \in Nat /\ BufCap \in Nat \ {0, 1} /\ Limit \in Nat
    /\ MaxVersion \in Nat
    /\ Size \in [0..MaxVersion -> Nat \ {0}]

VARIABLES
    pipe,     \* cells in the pipe
    buf,      \* cells in the buffer of the writer
    latest,   \* version of shared_data
    wpc,      \* __send_update: free (nobody has the lock), header, data, flush
    job,      \* the version being sent and how many times, this one included
    flagged,  \* the worker is in resend_dict
    notified, \* resend_notification holds an item
    rpc,      \* the resend thread: wait, woken, sending
    reader,   \* the listener: what it awaits and what it has read
    have,     \* version the worker has
    refused,  \* some header was not taken whole (history)
    closed    \* the master's end of the pipe is closed

writerVars == <<latest, wpc, job, rpc>>
vars == <<pipe, buf, writerVars, flagged, notified, reader, have, refused, closed>>

Versions == 0..MaxVersion
Cells == {<<"magic", 0>>} \cup ({"size"} \X Nat) \cup ({"data"} \X Versions)
Header(v) == <<<<"magic", 0>>, <<"size", Size[v]>>>>
Data(v) == [i \in 1..Size[v] |-> <<"data", v>>]
\* Looking for the magic, having skipped some cells.
Seek(n) == [at |-> "magic", skipped |-> n, need |-> 0, got |-> <<>>]

TypeOK ==
    /\ pipe \in Seq(Cells) /\ Len(pipe) <= PipeCap
    /\ buf \in Seq(Cells) /\ Len(buf) <= BufCap
    /\ latest \in Versions /\ have \in Versions
    /\ wpc \in {"free", "header", "data", "flush"}
    /\ job \in [ver : Versions, left : 0..2]
    /\ rpc \in {"wait", "woken", "sending"}
    /\ flagged \in BOOLEAN /\ notified \in BOOLEAN
    /\ refused \in BOOLEAN /\ closed \in BOOLEAN
    /\ reader \in [at : {"magic", "size", "data", "lost", "spin", "exited"},
                   skipped : Nat, need : Nat, got : Seq(Cells)]

Init ==
    /\ pipe = <<>> /\ buf = <<>>
    /\ latest = 0 /\ have = 0
    /\ wpc = "free" /\ rpc = "wait"
    /\ job = [ver |-> 0, left |-> 0]
    /\ flagged = FALSE /\ notified = FALSE
    /\ refused = FALSE /\ closed = FALSE
    /\ reader = Seek(0)

-----------------------------------------------------------------------------
(* The writer.                                                             *)

Upto(s, n) == SubSeq(s, 1, IF n < Len(s) THEN n ELSE Len(s))
From(s, n) == SubSeq(s, n + 1, Len(s))
Room == PipeCap - Len(pipe)

\* pipe.write of a BufferedWriter over a non-blocking pipe: small data stays in
\* the buffer; what does not fit makes it flush the buffer, which goes into the
\* pipe as a whole or not at all, and pass on large data as far as there is
\* room.  It keeps what the buffer can hold and raises if something is left.
Write(x) ==
    IF Len(buf) + Len(x) <= BufCap
    THEN [pipe |-> pipe, buf |-> buf \o x, ok |-> TRUE]
    ELSE IF Room < Len(buf)
    THEN [pipe |-> pipe, buf |-> buf \o Upto(x, BufCap - Len(buf)), ok |-> FALSE]
    ELSE LET direct == IF Len(x) > BufCap THEN Upto(x, Room - Len(buf)) ELSE <<>>
             rest == From(x, Len(direct))
         IN [pipe |-> pipe \o buf \o direct, buf |-> Upto(rest, BufCap),
             ok |-> Len(rest) <= BufCap]

Wrote(w) == pipe' = w.pipe /\ buf' = w.buf

\* The end of one __send_update: once more, or the lock is released.
EndUpdate ==
    /\ job' = [job EXCEPT !.left = @ - 1]
    /\ wpc' = IF job.left = 1 THEN "free" ELSE "header"
    /\ rpc' = IF job.left = 1 /\ rpc = "sending" THEN "wait" ELSE rpc

\* send_updates of a new version, under the lock.
StartUpdate ==
    /\ wpc = "free" /\ ~closed
    /\ latest < MaxVersion
    /\ latest' = latest + 1
    /\ job' = [ver |-> latest + 1, left |-> 1]
    /\ wpc' = "header"
    /\ UNCHANGED <<pipe, buf, rpc, flagged, notified, reader, have, refused, closed>>

\* The header.  If the pipe does not take it, the update is dropped and the
\* worker is not flagged; what fitted of the header stays in the buffer.
WriteHeader ==
    LET w == Write(Header(job.ver)) IN
    /\ wpc = "header" /\ ~closed
    /\ Wrote(w)
    /\ refused' = (refused \/ ~w.ok)
    /\ IF w.ok THEN wpc' = "data" /\ UNCHANGED <<job, rpc>> ELSE EndUpdate
    /\ UNCHANGED <<latest, flagged, notified, reader, have, closed>>

\* Mutant of FlagIf: the worker is flagged, the resend thread is not told.
FlagIfSilently(b) == flagged' = (flagged \/ b) /\ UNCHANGED notified

\* The worker is put in resend_dict and the resend thread is told, unless an
\* item is in its queue already.
FlagIf(b) == flagged' = (flagged \/ b) /\ notified' = (notified \/ b)

WriteData ==
    LET w == Write(Data(job.ver)) IN
    /\ wpc = "data" /\ ~closed
    /\ Wrote(w)
    /\ FlagIf(~w.ok)
    /\ IF w.ok THEN wpc' = "flush" /\ UNCHANGED <<job, rpc>> ELSE EndUpdate
    /\ UNCHANGED <<latest, reader, have, refused, closed>>

\* pipe.flush: what does not go into the pipe stays in the buffer.
Flush ==
    LET ok == Len(buf) <= Room IN
    /\ wpc = "flush" /\ ~closed
    /\ IF ok THEN pipe' = pipe \o buf /\ buf' = <<>> ELSE UNCHANGED <<pipe, buf>>
    /\ FlagIf(~ok)
    /\ EndUpdate
    /\ UNCHANGED <<latest, reader, have, refused, closed>>

-----------------------------------------------------------------------------
(* The resend thread.                                                      *)

ResendGet ==
    /\ rpc = "wait" /\ notified /\ ~closed
    /\ notified' = FALSE
    /\ rpc' = "woken"
    /\ UNCHANGED <<pipe, buf, latest, wpc, job, flagged, reader, have, refused, closed>>

\* Mutant of Copies: the resend writes the data once.
OneCopy == 1

\* "writing 2 times to ensure fix of client reading pattern".
Copies == 2

\* Mutant of ResendData: pickled before the lock is taken.
ResendDataEarly == IF latest = 0 THEN 0 ELSE latest - 1

\* shared_data pickled under the lock.
ResendData == latest

\* With the lock: the flags are taken and cleared, the data is that of now.
ResendStart ==
    /\ rpc = "woken" /\ wpc = "free" /\ ~closed
    /\ flagged' = FALSE
    /\ IF flagged
       THEN /\ job' = [ver |-> ResendData, left |-> Copies]
            /\ wpc' = "header" /\ rpc' = "sending"
       ELSE rpc' = "wait" /\ UNCHANGED <<job, wpc>>
    /\ UNCHANGED <<pipe, buf, latest, notified, reader, have, refused, closed>>

-----------------------------------------------------------------------------
(* The listener of the worker.                                             *)

\* readuntil drops what precedes the magic, up to a limit: beyond it the
\* exception leaves everything in place, and the loop raises it for ever.
SeekOn == IF reader.skipped < Limit THEN Seek(reader.skipped + 1)
          ELSE [reader EXCEPT !.at = "spin"]

\* pickle.loads takes whole data of one version, and fails on anything else.
Loaded(cells) == {v \in Versions : cells = Data(v)}

\* One cell of the stream.  A size that is no size (a magic cut off before its
\* size) is an enormous number: readexactly never returns.
ReadCell ==
    LET c == Head(pipe)  got == Append(reader.got, c) IN
    /\ pipe # <<>>
    /\ pipe' = Tail(pipe)
    /\ \/ /\ reader.at = "magic" /\ UNCHANGED have
          /\ reader' = IF c[1] = "magic" THEN [Seek(0) EXCEPT !.at = "size"] ELSE SeekOn
       \/ /\ reader.at = "size" /\ UNCHANGED have
          /\ reader' = IF c[1] = "size" THEN [Seek(0) EXCEPT !.at = "data", !.need = c[2]]
                       ELSE [Seek(0) EXCEPT !.at = "lost"]
       \/ /\ reader.at = "data" /\ Len(got) < reader.need /\ UNCHANGED have
          /\ reader' = [reader EXCEPT !.got = got]
       \/ /\ reader.at = "data" /\ Len(got) = reader.need
          /\ have' \in (IF Loaded(got) = {} THEN {have} ELSE Loaded(got))
          /\ reader' = Seek(0)
       \/ reader.at = "lost" /\ UNCHANGED <<reader, have>>
    /\ UNCHANGED <<buf, writerVars, flagged, notified, refused, closed>>

\* The master is gone: its buffer is lost, and the reader's next await ends in
\* IncompleteReadError once the pipe is empty.
MasterGone ==
    /\ ~closed
    /\ closed' = TRUE
    /\ buf' = <<>>
    /\ UNCHANGED <<pipe, writerVars, flagged, notified, reader, have, refused>>

\* Mutant of ReadEof: the end of file is an exception like any other.
ReadEofLogged ==
    /\ closed /\ pipe = <<>>
    /\ reader.at \notin {"exited", "spin"}
    /\ reader' = Seek(0)
    /\ UNCHANGED <<pipe, buf, writerVars, flagged, notified, have, refused, closed>>

ReadEof ==
    /\ closed /\ pipe = <<>>
    /\ reader.at \notin {"exited", "spin"}
    /\ reader' = [reader EXCEPT !.at = "exited"]
    /\ UNCHANGED <<pipe, buf, writerVars, flagged, notified, have, refused, closed>>

-----------------------------------------------------------------------------
Send == WriteHeader \/ WriteData \/ Flush
Resend == ResendGet \/ ResendStart
Read == ReadCell \/ ReadEof
Next == StartUpdate \/ Send \/ Resend \/ Read \/ MasterGone
Spec == Init /\ [][Next]_vars

\* Threads are scheduled, and the worker's loop runs its listener.
FairSpec == Spec /\ WF_vars(Send) /\ WF_vars(Resend) /\ WF_vars(Read)

-----------------------------------------------------------------------------
(* Properties.                                                             *)

\* No wakeup is lost: a worker in resend_dict is known to the resend thread,
\* by an item in its queue or because it is awake and has yet to look.
FlagIsHeard == flagged /\ ~closed => notified \/ rpc # "wait"

\* Nothing is under way: no writer, no flag, nothing left to read.
Quiet == /\ wpc = "free" /\ rpc = "wait" /\ ~notified /\ ~closed
         /\ pipe = <<>>

\* What the tests say of the pipe: when all is written and read, the worker has
\* what the master has.
DeliveredWhenQuiet == Quiet => have = latest

\* A version of the upstreams so far was smaller than an earlier one by more
\* than two headers.
Shrunk == \E u, w \in 0..latest : u < w /\ Size[u] > Size[w] + 4

\* The repair works: a message cut off by a full pipe is made good by the two
\* copies of the resend thread, of which the reader swallows the first in place
\* of the missing end.  It works as long as no header was refused and the data
\* never shrank by more than two headers; past either the worker may be left
\* with old upstreams until the next update.
RepairedUnlessRefused == ~refused /\ ~Shrunk => DeliveredWhenQuiet

\* The upstreams of the worker never go back to an older version, whatever is
\* cut, resent or swallowed.
NeverOlder == [][have' >= have]_vars

\* A worker whose master is gone ends, however a message was cut off, unless
\* its listener spins.
OrphanExits == closed ~> (reader.at \in {"exited", "spin"})

=============================================================================
