----------------------------- MODULE IoResources -----------------------------
(***************************************************************************)
(* The table of open files of the virtual machine and the streams of       *)
(* java.io and java.nio.file that use it.  A stream has a FileDescriptor,  *)
(* the descriptor holds the index of the file in the table, and nothing    *)
(* but that number leads a native to a file.  Every stream opens a file of *)
(* its own here, so a file is named after the stream that opened it.       *)
(***************************************************************************)
EXTENDS Integers, SequencesExt

CONSTANTS IoThread, Stream,
          MaxFiles   \* openings an instance may make

VARIABLES
  next_id,   \* the next index to give
  files,     \* the table: which stream opened the file, and is it open
  fd,        \* the descriptor of a stream, named after the stream it was made for
  rid,       \* the number in a descriptor
  io,        \* the native a thread is in
  muddled    \* ghost: streams whose opening overlapped another

iovars == <<next_id, files, fd, rid, io, muddled>>

Unopened == "none"
Idle == [op |-> "idle", s |-> Unopened, id |-> 0]
ASSUME IoAssumption == Unopened \notin Stream /\ MaxFiles \in Nat

NullField == -1   \* the descriptor's field holds a null reference

\* A descriptor without a long in its field reads as number 0.
ResourceId(d) == IF rid[d] = NullField THEN 0 ELSE rid[d]
IdOf(s) == ResourceId(fd[s])

\* IoResources::is_open and the test of with_file.
IsOpen(id) == id < Len(files) /\ files[id + 1].open

ClosedAndRemoved(id) == IF id < Len(files) THEN RemoveAt(files, id + 1) ELSE files
\* IoResources::close leaves a hole: the numbers of the others stay theirs.
Closed(id) == IF id < Len(files) THEN [files EXCEPT ![id + 1].open = FALSE] ELSE files

\* The natives that look a file up by its number and then use it.
FileDescriptorUses == {"valid", "sync"}
FileInputStreamUses == {"read0", "readBytes", "available0", "skip0"}
FileOutputStreamUses == {"write", "writeBytes"}
RandomAccessFileUses == {"read0", "readBytes", "write0", "writeBytes", "seek0", "length"}
JavaIoUses == FileDescriptorUses \cup FileInputStreamUses \cup FileOutputStreamUses
                \cup RandomAccessFileUses
\* Those of the readers, writers and channels, for which number 0 is no file.
StreamReads == {"read_byte", "read_into_byte_array"}
StreamWrites == {"write_byte", "write_string", "write_chars"}
NioUses == StreamReads \cup StreamWrites \cup {"available"}

-----------------------------------------------------------------------------

IoInit ==
  /\ next_id = 0
  /\ files = <<>>
  /\ fd = [s \in Stream |-> Unopened]
  /\ rid = [s \in Stream |-> 0]
  /\ io = [t \in IoThread |-> Idle]
  /\ muddled = {}

Go(t, step) == io' = [io EXCEPT ![t] = step]
Started(t) == io[t] = Idle
In(t, op) == io[t].op = op
Unused(s) == fd[s] = Unopened /\ \A t \in IoThread : io[t].s # s
Opened(s) == fd[s] # Unopened

\* Opening a file of a new stream, by a constructor, open0 or a method of Files:
\* the number is taken, the file is pushed, and the descriptor gets the number.
AllocId(t, s) ==
  LET others == {io[u].s : u \in {v \in IoThread : In(v, "push")}} IN
  /\ Started(t) /\ Unused(s) /\ next_id < MaxFiles
  /\ next_id' = next_id + 1
  /\ Go(t, [op |-> "push", s |-> s, id |-> next_id])
  /\ muddled' = IF others = {} THEN muddled ELSE muddled \cup others \cup {s}
  /\ UNCHANGED <<files, fd, rid>>

AllocPush(t) ==
  /\ In(t, "push")
  /\ files' = Append(files, [of |-> io[t].s, open |-> TRUE])
  /\ Go(t, [io[t] EXCEPT !.op = "publish"])
  /\ UNCHANGED <<next_id, fd, rid, muddled>>

NewStream(t) ==
  /\ In(t, "publish")
  /\ fd' = [fd EXCEPT ![io[t].s] = io[t].s]
  /\ rid' = [rid EXCEPT ![io[t].s] = io[t].id]
  /\ Go(t, Idle)
  /\ UNCHANGED <<next_id, files, muddled>>

\* A stream made of the descriptor of another.
NewStreamOf(t, s, other) ==
  /\ Started(t) /\ Unused(s) /\ Opened(other)
  /\ fd' = [fd EXCEPT ![s] = fd[other]]
  /\ UNCHANGED <<next_id, files, rid, io, muddled>>

\* The native reads the number under the mutex of the heap and releases it.
Lookup(t, s) ==
  /\ Started(t) /\ Opened(s)
  /\ \E use \in JavaIoUses \cup NioUses : use \in NioUses => IdOf(s) # 0
  /\ Go(t, [op |-> "use", s |-> s, id |-> IdOf(s)])
  /\ UNCHANGED <<next_id, files, fd, rid, muddled>>

\* It uses the file under the mutex of the table, or throws an IOException.
WithFile(t) ==
  /\ In(t, "use")
  /\ Go(t, Idle)
  /\ UNCHANGED <<next_id, files, fd, rid, muddled>>

\* close0 reads the number, clears the descriptor and closes the file.
Close0(t, s) ==
  /\ Started(t) /\ Opened(s)
  /\ Go(t, [op |-> "clear", s |-> s, id |-> IdOf(s)])
  /\ UNCHANGED <<next_id, files, fd, rid, muddled>>
ClearDescriptor(t) ==
  /\ In(t, "clear")
  /\ rid' = [rid EXCEPT ![fd[io[t].s]] = 0]
  /\ Go(t, [io[t] EXCEPT !.op = "close"])
  /\ UNCHANGED <<next_id, files, fd, muddled>>
CloseFile(t) ==
  /\ In(t, "close")
  /\ files' = Closed(io[t].id)
  /\ Go(t, Idle)
  /\ UNCHANGED <<next_id, fd, rid, muddled>>

\* Closing a writer over a FileOutputStream clears the field of the descriptor
\* and leaves the file open: it takes the descriptor for the stream and finds
\* number 0 there.
CloseWriter(t, s) ==
  /\ Started(t) /\ Opened(s)
  /\ rid' = [rid EXCEPT ![fd[s]] = NullField]
  /\ UNCHANGED <<next_id, files, fd, io, muddled>>

IoNext == \E t \in IoThread :
  \/ \E s \in Stream : AllocId(t, s) \/ Lookup(t, s) \/ Close0(t, s) \/ CloseWriter(t, s)
  \/ \E s, other \in Stream : NewStreamOf(t, s, other)
  \/ AllocPush(t) \/ NewStream(t) \/ WithFile(t) \/ ClearDescriptor(t) \/ CloseFile(t)

IoSpec == IoInit /\ [][IoNext]_iovars

-----------------------------------------------------------------------------

\* A stream whose opening overlapped no other keeps its own file whatever the
\* others open and close later: its number leads to that file, which is open
\* until the stream is closed, and a native that looked the number up earlier
\* cannot reach a file of another stream.  Number 0 is not a file of its own:
\* closed descriptors have it too.
OwnFile ==
  /\ \A s \in Stream :
       Opened(s) /\ fd[s] \notin muddled /\ IdOf(s) # 0 =>
         /\ IsOpen(IdOf(s))
         /\ files[IdOf(s) + 1].of = fd[s]
  /\ \A t \in IoThread :
       io[t].op \in {"use", "clear", "close"} /\ io[t].id # 0 /\ fd[io[t].s] \notin muddled =>
         files[io[t].id + 1].of = fd[io[t].s]
=============================================================================
