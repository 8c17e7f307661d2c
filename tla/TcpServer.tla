------------------------------ MODULE TcpServer ------------------------------
(***************************************************************************)
(* The TCP server of cpp/boost_tcp_server.h and .cpp, which is built with  *)
(* the component. Two threads meet in it: the caller of server::write() and*)
(* server::read(), and the thread of io_service.run(), which runs one      *)
(* completion handler at a time. A session queues what is written to it    *)
(* and has one async_write() outstanding.                                  *)
(*                                                                         *)
(* sessionsLock is held by the caller across steps, a session's writeLock  *)
(* by the handler of a failed write; every other critical section is one   *)
(* step. Messages written and bytes read are numbered in order.            *)
(***************************************************************************)
EXTENDS Integers, Sequences

CONSTANTS
  Clients,   \* session objects, one for each connection
  NoClient,
  Chunks,    \* how many bytes one read may bring or ask for
  MaxWrites, \* bound: calls of server::write()
  MaxBytes   \* bound: bytes received

ASSUME ClientsAssumption == NoClient \notin Clients
ASSUME ChunksAssumption ==
  Chunks \subseteq Nat /\ MaxWrites \in Nat /\ MaxBytes \in Nat

VARIABLES
  sessions,     \* server::sessions_
  waiting,      \* sessionWaitingForAccept_
  created,      \* sessions constructed so far
  broken,       \* clients that are gone
  writeBuffer, writing,  \* per session: the queue, and async_write() is pending
  reading,      \* per session: an async_read_some() is pending
  sessionsLock, \* "free" or "caller"
  caller,       \* "idle", "lock" or "each" session of the list
  place,        \* where in the list
  io,           \* "poll", "accepted" or "close"
  closing,      \* the session whose handle_write() holds its writeLock
  pendingData,  \* bytes received and not yet read
  writes, from, received, \* messages so far; those a session came too late
                          \* for; what its client got
  bytes, taken            \* bytes received so far; what server::read() gave out

listVars  == <<sessions, waiting, created, from>>
queueVars == <<writeBuffer, writing, received>>
callVars  == <<sessionsLock, caller, place, writes>>
ioVars    == <<io, closing>>
readVars  == <<reading, pendingData, bytes, taken>>
vars == <<listVars, broken, queueVars, callVars, ioVars, readVars>>

\* The server's constructor ends in start_accept() and starts the io thread.
Init ==
  /\ sessions = <<>> /\ waiting \in Clients /\ created = {waiting}
  /\ broken = {}
  /\ writeBuffer = [s \in Clients |-> <<>>] /\ writing = [s \in Clients |-> FALSE]
  /\ reading = [s \in Clients |-> FALSE]
  /\ sessionsLock = "free" /\ caller = "idle" /\ place = 1
  /\ io = "poll" /\ closing = NoClient
  /\ pendingData = <<>>
  /\ writes = 0 /\ from = [s \in Clients |-> 0] /\ received = [s \in Clients |-> <<>>]
  /\ bytes = 0 /\ taken = <<>>

-----------------------------------------------------------------------------
(* server::write() and server::read()                                      *)

CallWrite ==
  /\ caller = "idle" /\ writes < MaxWrites
  /\ caller' = "lock"
  /\ UNCHANGED <<listVars, broken, queueVars, sessionsLock, place, writes,
                 ioVars, readVars>>

LockSessions ==
  /\ caller = "lock" /\ sessionsLock = "free"
  /\ sessionsLock' = "caller"
  /\ caller' = "each" /\ place' = 1
  /\ writes' = writes + 1
  /\ UNCHANGED <<listVars, broken, queueVars, ioVars, readVars>>

\* Faulty variant: the message goes to the front of the queue.
WriteSessionFirst ==
  /\ caller = "each" /\ place <= Len(sessions)
  /\ LET s == sessions[place]
     IN  /\ closing # s
         /\ writeBuffer' = [writeBuffer EXCEPT ![s] = <<writes>> \o @]
         /\ writing' = [writing EXCEPT ![s] = TRUE]
  /\ place' = place + 1
  /\ UNCHANGED <<listVars, broken, received, sessionsLock, caller, writes,
                 ioVars, readVars>>

\* session::write(), under writeLock: a write is begun when the queue was empty.
\* (The socket of a listed session is open until its destructor closes it.)
WriteSession ==
  /\ caller = "each" /\ place <= Len(sessions)
  /\ LET s == sessions[place]
     IN  /\ closing # s
         /\ writeBuffer' = [writeBuffer EXCEPT ![s] = Append(@, writes)]
         /\ writing' = [writing EXCEPT ![s] = @ \/ writeBuffer[s] = <<>>]
  /\ place' = place + 1
  /\ UNCHANGED <<listVars, broken, received, sessionsLock, caller, writes,
                 ioVars, readVars>>

\* Faulty variant: sessionsLock is not given back.
EndWriteLocked ==
  /\ caller = "each" /\ place > Len(sessions)
  /\ caller' = "idle"
  /\ UNCHANGED <<listVars, broken, queueVars, sessionsLock, place, writes,
                 ioVars, readVars>>

EndWrite ==
  /\ caller = "each" /\ place > Len(sessions)
  /\ sessionsLock' = "free"
  /\ caller' = "idle"
  /\ UNCHANGED <<listVars, broken, queueVars, place, writes, ioVars, readVars>>

\* What read() hands out of n bytes asked for.
Available(n) == IF n < Len(pendingData) THEN n ELSE Len(pendingData)

\* Faulty variant: what was handed out is not erased.
ReadKeeping ==
  /\ pendingData # <<>> /\ Len(taken) < MaxBytes
  /\ \E n \in Chunks : taken' = taken \o SubSeq(pendingData, 1, Available(n))
  /\ UNCHANGED <<listVars, broken, queueVars, callVars, ioVars, reading,
                 pendingData, bytes>>

Read ==
  /\ pendingData # <<>>
  /\ \E n \in Chunks :
       /\ taken' = taken \o SubSeq(pendingData, 1, Available(n))
       /\ pendingData' = SubSeq(pendingData, Available(n) + 1, Len(pendingData))
  /\ UNCHANGED <<listVars, broken, queueVars, callVars, ioVars, reading, bytes>>

-----------------------------------------------------------------------------
(* Completion handlers                                                     *)

\* start_accept() makes the next session object.
StartAccept ==
  /\ waiting' \in (Clients \ created) \union {NoClient}
  /\ waiting' = NoClient => created = Clients
  /\ created' = created \union ({waiting'} \ {NoClient})

\* handle_accept() without an error has the session to put on the list.
Accept ==
  /\ io = "poll" /\ waiting # NoClient
  /\ io' = "accepted"
  /\ UNCHANGED <<listVars, broken, queueVars, callVars, closing, readVars>>

AcceptFails ==
  /\ io = "poll" /\ waiting # NoClient
  /\ StartAccept
  /\ UNCHANGED <<sessions, from, broken, queueVars, callVars, ioVars, readVars>>

\* Under sessionsLock the session is listed; then its first read is begun.
HandleAccept ==
  /\ io = "accepted" /\ sessionsLock = "free"
  /\ sessions' = Append(sessions, waiting)
  /\ from' = [from EXCEPT ![waiting] = writes]
  /\ reading' = [reading EXCEPT ![waiting] = TRUE]
  /\ StartAccept
  /\ io' = "poll"
  /\ UNCHANGED <<broken, queueVars, callVars, closing, pendingData, bytes, taken>>

\* The next n bytes.
Arrived(n) == [k \in 1 .. n |-> bytes + k]

HandleRead(s) ==
  /\ io = "poll" /\ reading[s] /\ s \notin broken
  /\ \E n \in Chunks :
       /\ bytes + n <= MaxBytes
       /\ pendingData' = pendingData \o Arrived(n)
       /\ bytes' = bytes + n
  /\ UNCHANGED <<listVars, broken, queueVars, callVars, ioVars, reading, taken>>

\* A read that failed is not repeated, and the session stays on the list. (The
\* first read of a session does not keep the session object alive: its handler
\* is bound to a plain this, which is gone after CloseSession.)
HandleReadError(s) ==
  /\ io = "poll" /\ reading[s] /\ s \in broken
  /\ reading' = [reading EXCEPT ![s] = FALSE]
  /\ UNCHANGED <<listVars, broken, queueVars, callVars, ioVars, pendingData,
                 bytes, taken>>

\* Faulty variant: the rest of the queue waits for the next write().
HandleWriteOnce(s) ==
  /\ io = "poll" /\ writing[s] /\ s \notin broken
  /\ received' = [received EXCEPT ![s] = Append(@, Head(writeBuffer[s]))]
  /\ writeBuffer' = [writeBuffer EXCEPT ![s] = Tail(@)]
  /\ writing' = [writing EXCEPT ![s] = FALSE]
  /\ UNCHANGED <<listVars, broken, callVars, ioVars, readVars>>

\* The message has gone to the client; the next one of the queue follows.
HandleWrite(s) ==
  /\ io = "poll" /\ writing[s] /\ s \notin broken
  /\ received' = [received EXCEPT ![s] = Append(@, Head(writeBuffer[s]))]
  /\ writeBuffer' = [writeBuffer EXCEPT ![s] = Tail(@)]
  /\ writing' = [writing EXCEPT ![s] = Tail(writeBuffer[s]) # <<>>]
  /\ UNCHANGED <<listVars, broken, callVars, ioVars, readVars>>

\* The write failed: closeSession() is called with writeLock held.
HandleWriteError(s) ==
  /\ io = "poll" /\ writing[s] /\ s \in broken
  /\ writeBuffer' = [writeBuffer EXCEPT ![s] = Tail(@)]
  /\ writing' = [writing EXCEPT ![s] = FALSE]
  /\ io' = "close" /\ closing' = s
  /\ UNCHANGED <<listVars, broken, received, callVars, readVars>>

\* The list without the session that is closed, which is on it once.
OtherSessions ==
  LET i == CHOOSE i \in 1 .. Len(sessions) : sessions[i] = closing
  IN  [k \in 1 .. Len(sessions) - 1 |-> IF k < i THEN sessions[k] ELSE sessions[k + 1]]

\* Faulty variant: the list is changed without sessionsLock.
CloseUnlocked ==
  /\ io = "close"
  /\ sessions' = OtherSessions
  /\ io' = "poll" /\ closing' = NoClient
  /\ UNCHANGED <<waiting, created, from, broken, queueVars, callVars, readVars>>

CloseSession ==
  /\ io = "close" /\ sessionsLock = "free"
  /\ sessions' = OtherSessions
  /\ io' = "poll" /\ closing' = NoClient
  /\ UNCHANGED <<waiting, created, from, broken, queueVars, callVars, readVars>>

\* A connected client goes away.
Leave(s) ==
  /\ \E i \in 1 .. Len(sessions) : sessions[i] = s
  /\ s \notin broken
  /\ broken' = broken \union {s}
  /\ UNCHANGED <<listVars, queueVars, callVars, ioVars, readVars>>

-----------------------------------------------------------------------------
CallerStep == LockSessions \/ WriteSession \/ EndWrite

HandlerStep == HandleAccept \/ CloseSession

Next ==
  \/ CallWrite \/ CallerStep \/ Read
  \/ Accept \/ AcceptFails \/ HandlerStep
  \/ \E s \in Clients : \/ HandleRead(s) \/ HandleReadError(s)
                        \/ HandleWrite(s) \/ HandleWriteError(s)
                        \/ Leave(s)

Spec == Init /\ [][Next]_vars

\* The caller's thread and the io thread run on; clients owe nothing.
LiveSpec == Spec /\ WF_vars(CallerStep) /\ WF_vars(HandlerStep)

-----------------------------------------------------------------------------
(* What must hold                                                          *)

\* Every variable has its type, and write() never looks past the list.
TypeOK ==
  /\ sessions \in Seq(Clients) /\ waiting \in Clients \union {NoClient}
  /\ created \subseteq Clients /\ broken \subseteq Clients
  /\ writeBuffer \in [Clients -> Seq(Nat)] /\ writing \in [Clients -> BOOLEAN]
  /\ reading \in [Clients -> BOOLEAN]
  /\ sessionsLock \in {"free", "caller"} /\ caller \in {"idle", "lock", "each"}
  /\ place \in Nat /\ (caller = "each" => place \in 1 .. Len(sessions) + 1)
  /\ io \in {"poll", "accepted", "close"} /\ closing \in Clients \union {NoClient}
  /\ pendingData \in Seq(Nat) /\ taken \in Seq(Nat) /\ bytes \in Nat
  /\ writes \in Nat /\ from \in [Clients -> Nat] /\ received \in [Clients -> Seq(Nat)]

\* A client gets every message written since it was accepted, in order, up to
\* the write that fails (cpp/boost_tcp_server.cpp:71-88).
DeliveredInOrder ==
  \A s \in Clients : \A i \in 1 .. Len(received[s]) : received[s][i] = from[s] + i

\* Whatever is queued for a session that is not being closed has a write under
\* way, and a write that completes finds what it wrote at the front: neither
\* the last completion nor the next write() may miss the other.
NothingStuck ==
  /\ \A s \in Clients : writing[s] => writeBuffer[s] # <<>>
  /\ \A i \in 1 .. Len(sessions) :
       sessions[i] # closing /\ writeBuffer[sessions[i]] # <<>> => writing[sessions[i]]

\* server::read() gives out every byte received once and in order.
ReadInOrder ==
  /\ \A i \in 1 .. Len(taken) : taken[i] = i
  /\ Len(taken) + Len(pendingData) = bytes

\* write() holds sessionsLock and waits for a writeLock, handle_write() holds
\* that writeLock and waits for sessionsLock.
Deadlocked ==
  /\ caller = "each" /\ place <= Len(sessions) /\ sessions[place] = closing
  /\ io = "close"

\* server::write() returns, unless it meets the handler of a failed write on
\* one of its sessions: the only way for both threads to stop for good.
WriteReturns == caller = "lock" ~> caller = "idle" \/ Deadlocked
=============================================================================
