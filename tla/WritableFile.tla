---------------------------- MODULE WritableFile ----------------------------
(***************************************************************************)
(* posix_writable_file of posix_env.cc: a file written through a buffer of *)
(* fixed size.  A byte is its number among the bytes appended.  Every      *)
(* write() may take fewer bytes than it is given or fail; a call that is   *)
(* interrupted (EINTR) changes nothing and is a stuttering step.           *)
(***************************************************************************)
EXTENDS Integers, Sequences

CONSTANTS BufferSize,   \* kWritableFileBufferSize
          Sizes,        \* the sizes callers append
          MaxBytes,     \* bound on the bytes appended
          IsManifest    \* is_manifest_

ASSUME BufferAssumption == BufferSize \in Nat \ {0}
ASSUME SizesAssumption == Sizes \subseteq Nat /\ MaxBytes \in Nat
ASSUME ManifestAssumption == IsManifest \in BOOLEAN

VARIABLES buf,        \* buf_[ 0 .. pos_ )
          fd,         \* "open", or "closed" once fd_ is -1
          file,       \* what the operating system has taken
          synced,     \* how much of it is durable
          dir_synced, \* has the directory been synced?
          appended,   \* how many bytes append was given
          call,       \* the call in progress: what it still writes, and what then
          failed      \* has a call returned an error?

vars == <<buf, fd, file, synced, dir_synced, appended, call, failed>>

Idle == [pc |-> "idle", data |-> <<>>, rest |-> <<>>]
Writing(data, then, rest) == [pc |-> then, data |-> data, rest |-> rest]
Numbers(from, n) == [i \in 1..n |-> from + i]

Return == call' = Idle /\ UNCHANGED failed
ReturnError == call' = Idle /\ failed' = TRUE

\* Mutant: a record that fits an empty buffer is taken to fit.
AppendData_IgnoresPos(n) ==
    /\ call = Idle
    /\ appended + n <= MaxBytes
    /\ appended' = appended + n
    /\ LET room == BufferSize - Len(buf)
           data == Numbers(appended, n)
       IN  IF n <= BufferSize
             THEN buf' = buf \o data /\ Return
             ELSE LET full == buf \o SubSeq(data, 1, room) IN
                  /\ buf' = full
                  /\ call' = Writing(full, "append", SubSeq(data, room + 1, n))
                  /\ UNCHANGED failed
    /\ UNCHANGED <<fd, file, synced, dir_synced>>

\* As much as fits goes into the buffer; if that is not all the buffer is flushed.
AppendData(n) ==
    /\ call = Idle
    /\ appended + n <= MaxBytes
    /\ appended' = appended + n
    /\ LET room == BufferSize - Len(buf)
           data == Numbers(appended, n)
       IN  IF n <= room
             THEN buf' = buf \o data /\ Return
             ELSE LET full == buf \o SubSeq(data, 1, room) IN
                  /\ buf' = full
                  /\ call' = Writing(full, "append", SubSeq(data, room + 1, n))
                  /\ UNCHANGED failed
    /\ UNCHANGED <<fd, file, synced, dir_synced>>

Flush ==
    /\ call = Idle
    /\ call' = Writing(buf, "flush", <<>>)
    /\ UNCHANGED <<buf, fd, file, synced, dir_synced, appended, failed>>

\* sync_dir_if_manifest, then flush_buffer.
Sync ==
    /\ call = Idle
    /\ dir_synced' = (dir_synced \/ IsManifest)
    /\ call' = Writing(buf, "sync", <<>>)
    /\ UNCHANGED <<buf, fd, file, synced, appended, failed>>

SyncDirFails ==
    /\ call = Idle
    /\ IsManifest
    /\ ReturnError
    /\ UNCHANGED <<buf, fd, file, synced, dir_synced, appended>>

\* Also called by the destructor, if fd_ is not -1 by then.
Close ==
    /\ call = Idle
    /\ call' = Writing(buf, "close", <<>>)
    /\ UNCHANGED <<buf, fd, file, synced, dir_synced, appended, failed>>

-----------------------------------------------------------------------------
(* write_unbuffered.                                                       *)

WriteSome(k) ==
    /\ call.data # <<>>
    /\ fd = "open"
    /\ file' = file \o SubSeq(call.data, 1, k)
    /\ call' = [call EXCEPT !.data = SubSeq(@, k + 1, Len(@))]
    /\ UNCHANGED <<buf, fd, synced, dir_synced, appended, failed>>

\* flush_buffer empties the buffer also when it fails; close goes on.
WriteFails ==
    /\ call.data # <<>>
    /\ buf' = <<>>
    /\ failed' = TRUE
    /\ call' = IF call.pc = "close" THEN [call EXCEPT !.data = <<>>] ELSE Idle
    /\ UNCHANGED <<fd, file, synced, dir_synced, appended>>

\* Written: a part smaller than the buffer is copied into it, a larger one is
\* written directly.
AppendRest ==
    /\ call.pc = "append" /\ call.data = <<>>
    /\ IF Len(call.rest) < BufferSize
         THEN buf' = call.rest /\ Return
         ELSE buf' = <<>> /\ call' = Writing(call.rest, "direct", <<>>) /\ UNCHANGED failed
    /\ UNCHANGED <<fd, file, synced, dir_synced, appended>>

Written ==
    /\ call.pc \in {"direct", "flush"} /\ call.data = <<>>
    /\ buf' = <<>>
    /\ Return
    /\ UNCHANGED <<fd, file, synced, dir_synced, appended>>

\* Mutant: sync returns before fdatasync.
DataSync_Skips ==
    /\ call.pc = "sync" /\ call.data = <<>>
    /\ buf' = <<>>
    /\ Return
    /\ UNCHANGED <<fd, file, synced, dir_synced, appended>>

DataSync ==
    /\ call.pc = "sync" /\ call.data = <<>>
    /\ fd = "open"
    /\ buf' = <<>>
    /\ synced' = Len(file)
    /\ Return
    /\ UNCHANGED <<fd, file, dir_synced, appended>>

DataSyncFails ==
    /\ call.pc = "sync" /\ call.data = <<>>
    /\ buf' = <<>>
    /\ ReturnError
    /\ UNCHANGED <<fd, file, synced, dir_synced, appended>>

\* fd_ is -1 whatever ::close returns.
Closed ==
    /\ call.pc = "close" /\ call.data = <<>>
    /\ buf' = <<>>
    /\ fd' = "closed"
    /\ (fd = "open" /\ Return) \/ ReturnError
    /\ UNCHANGED <<file, synced, dir_synced, appended>>

-----------------------------------------------------------------------------
Init ==
    /\ buf = <<>> /\ fd = "open" /\ file = <<>> /\ synced = 0 /\ dir_synced = FALSE
    /\ appended = 0 /\ call = Idle /\ failed = FALSE

Progress == \/ \E k \in 1..Len(call.data) : WriteSome(k)
            \/ WriteFails \/ AppendRest \/ Written \/ DataSync \/ DataSyncFails \/ Closed

Next == \/ \E n \in Sizes : AppendData(n)
        \/ Flush \/ Sync \/ SyncDirFails \/ Close
        \/ Progress

Spec == Init /\ [][Next]_vars

-----------------------------------------------------------------------------
(* Properties.                                                             *)

\* The buffer is never overfull.  While every call has succeeded, nothing is lost
\* on the way through it: file and buffer hold all that was appended, in order.
\* After a failure no byte is written twice or out of order: a gap at most.
BufferExact ==
    /\ Len(buf) <= BufferSize
    /\ ~failed /\ call = Idle => file \o buf = Numbers(0, appended)
    /\ \A i, j \in DOMAIN file : i < j => file[i] < file[j]

\* A sync that returns ok after nothing has failed leaves everything durable,
\* and the directory entry of a manifest with it.
SyncIsDurable ==
    [][call.pc = "sync" /\ call' = Idle /\ ~failed' =>
         synced' = appended' /\ (IsManifest => dir_synced')]_vars

=============================================================================
