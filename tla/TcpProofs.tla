------------------------------ MODULE TcpProofs ------------------------------
(***************************************************************************)
(* Proofs about TcpServer that hold for every number of connections and    *)
(* messages: its safety properties.                                        *)
(***************************************************************************)
EXTENDS TcpServer, SequenceTheorems, TLAPS

Listed(s) == \E i \in 1 .. Len(sessions) : sessions[i] = s

\* Who holds which lock, and what the list of sessions looks like.
Structure ==
  /\ sessionsLock = "caller" <=> caller = "each"
  /\ caller = "each" => writes > 0
  /\ io = "close" <=> closing # NoClient
  /\ closing # NoClient => Listed(closing)
  /\ io = "accepted" => waiting # NoClient
  /\ waiting # NoClient => waiting \in created
  /\ \A i \in 1 .. Len(sessions) : sessions[i] \in created /\ sessions[i] # waiting
  /\ \A i, j \in 1 .. Len(sessions) : sessions[i] = sessions[j] => i = j

\* Nothing has been written to a session that was not listed yet, and only a
\* listed session has a write under way.
Writers ==
  \A s \in Clients :
    /\ s \notin created \/ s = waiting => received[s] = <<>> /\ writeBuffer[s] = <<>>
    /\ writing[s] => Listed(s) /\ s # closing /\ writeBuffer[s] # <<>>

\* How many messages the i-th session of the list has been given.
Given(i) == IF caller = "each" /\ place <= i THEN writes - 1 ELSE writes

\* The queue of a session continues what its client has received.
Continued(s) ==
  \A k \in 1 .. Len(writeBuffer[s]) :
    writeBuffer[s][k] = from[s] + Len(received[s]) + k

Numbered ==
  \A i \in 1 .. Len(sessions) :
    sessions[i] # closing =>
      /\ from[sessions[i]] + Len(received[sessions[i]])
           + Len(writeBuffer[sessions[i]]) = Given(i)
      /\ Continued(sessions[i])
      /\ writeBuffer[sessions[i]] # <<>> => writing[sessions[i]]

\* The bytes not read yet continue those that were.
PendingInOrder == \A k \in 1 .. Len(pendingData) : pendingData[k] = Len(taken) + k

USE DEF listVars, queueVars, callVars, ioVars, readVars

-----------------------------------------------------------------------------
(* Sequences                                                               *)

\* Appending adds one element at the end; taking the head off shifts the rest.
LEMMA AppendFacts ==
  ASSUME NEW S, NEW q \in Seq(S), NEW e \in S
  PROVE  /\ Append(q, e) \in Seq(S) /\ Len(Append(q, e)) = Len(q) + 1
         /\ \A i \in 1 .. Len(q) : Append(q, e)[i] = q[i]
         /\ Append(q, e)[Len(q) + 1] = e
         /\ Append(q, e) # <<>>
<1>1. /\ Append(q, e) \in Seq(S) /\ Len(Append(q, e)) = Len(q) + 1
      /\ \A i \in 1 .. Len(q) : Append(q, e)[i] = q[i]
      /\ Append(q, e)[Len(q) + 1] = e
  OBVIOUS
<1>2. Len(Append(q, e)) # 0
  BY <1>1
<1> QED
  BY <1>1, <1>2

LEMMA TailFacts ==
  ASSUME NEW S, NEW q \in Seq(S), q # <<>>
  PROVE  /\ Tail(q) \in Seq(S) /\ Len(Tail(q)) = Len(q) - 1
         /\ \A i \in 1 .. Len(q) - 1 : Tail(q)[i] = q[i + 1]
         /\ Head(q) = q[1] /\ q[1] \in S /\ Len(q) > 0
  OBVIOUS

\* OtherSessions keeps every session but the one at the place of closing.
LEMMA OtherSessionsFacts ==
  ASSUME TypeOK, Structure, closing # NoClient
  PROVE  \E p \in 1 .. Len(sessions) :
           /\ sessions[p] = closing
           /\ OtherSessions \in Seq(Clients)
           /\ Len(OtherSessions) = Len(sessions) - 1
           /\ \A k \in 1 .. Len(sessions) - 1 :
                OtherSessions[k] = IF k < p THEN sessions[k] ELSE sessions[k + 1]
<1> DEFINE p == CHOOSE i \in 1 .. Len(sessions) : sessions[i] = closing
           F(k) == IF k < p THEN sessions[k] ELSE sessions[k + 1]
           n == Len(sessions) - 1
<1>1. p \in 1 .. Len(sessions) /\ sessions[p] = closing
  BY DEF Structure, Listed
<1>2. n \in Nat
  BY <1>1 DEF TypeOK
<1>3. \A k \in 1 .. n : F(k) \in Clients
  <2>1. Len(sessions) \in Nat /\ \A i \in 1 .. Len(sessions) : sessions[i] \in Clients
    BY DEF TypeOK
  <2> HIDE DEF p
  <2> QED
    BY <1>1, <2>1
<1>4. OtherSessions = [k \in 1 .. n |-> F(k)]
  BY DEF OtherSessions
<1> HIDE DEF p, F, n
<1>5. [k \in 1 .. n |-> F(k)] \in Seq(Clients) /\ Len([k \in 1 .. n |-> F(k)]) = n
  BY <1>2, <1>3
<1>6. \A k \in 1 .. n : [j \in 1 .. n |-> F(j)][k] = F(k)
  OBVIOUS
<1>7. /\ OtherSessions \in Seq(Clients) /\ Len(OtherSessions) = n
      /\ \A k \in 1 .. n : OtherSessions[k] = F(k)
  BY <1>4, <1>5, <1>6
<1> QED
  BY <1>1, <1>7 DEF F, n

-----------------------------------------------------------------------------
(* Types                                                                   *)

LEMMA TypeStep == TypeOK /\ Structure /\ Writers /\ [Next]_vars => TypeOK'
<1> SUFFICES ASSUME TypeOK, Structure, Writers, [Next]_vars PROVE TypeOK'
  OBVIOUS
<1> USE ChunksAssumption DEF TypeOK, StartAccept
<1>1. CASE CallWrite
  BY <1>1 DEF CallWrite
<1>2. CASE LockSessions
  BY <1>2 DEF LockSessions
<1>3. CASE WriteSession
  <2> DEFINE s == sessions[place]
  <2>1. s \in Clients /\ place \in 1 .. Len(sessions)
    BY <1>3 DEF WriteSession
  <2>2. Append(writeBuffer[s], writes) \in Seq(Nat)
    BY <2>1
  <2>3. writeBuffer' \in [Clients -> Seq(Nat)]
    BY <1>3, <2>1, <2>2 DEF WriteSession
  <2>4. writing' \in [Clients -> BOOLEAN]
    BY <1>3, <2>1 DEF WriteSession
  <2>5. place' \in 1 .. Len(sessions) + 1
    BY <1>3, <2>1 DEF WriteSession
  <2>6. UNCHANGED <<sessions, waiting, created, from, broken, received,
                    sessionsLock, caller, writes, io, closing, reading,
                    pendingData, bytes, taken>>
    BY <1>3 DEF WriteSession
  <2> QED
    BY <2>3, <2>4, <2>5, <2>6
<1>4. CASE EndWrite
  BY <1>4 DEF EndWrite
<1>5. CASE Read
  <2>1. PICK n \in Chunks :
          /\ taken' = taken \o SubSeq(pendingData, 1, Available(n))
          /\ pendingData' = SubSeq(pendingData, Available(n) + 1, Len(pendingData))
    BY <1>5 DEF Read
  <2>2. Available(n) \in 0 .. Len(pendingData)
    BY DEF Available
  <2>3. SubSeq(pendingData, 1, Available(n)) \in Seq(Nat)
    <3>1. \A i \in 1 .. Available(n) : pendingData[i] \in Nat
      BY <2>2
    <3> QED
      BY <2>2, <3>1, SubSeqProperties
  <2>4. pendingData' \in Seq(Nat)
    <3>1. \A i \in Available(n) + 1 .. Len(pendingData) : pendingData[i] \in Nat
      BY <2>2
    <3>2. SubSeq(pendingData, Available(n) + 1, Len(pendingData)) \in Seq(Nat)
      BY <2>2, <3>1, SubSeqProperties
    <3> QED
      BY <2>1, <3>2
  <2>5. taken' \in Seq(Nat)
    BY <2>1, <2>3, ConcatProperties
  <2> QED
    BY <1>5, <2>4, <2>5 DEF Read
<1>6. CASE Accept
  BY <1>6 DEF Accept
<1>7. CASE AcceptFails
  BY <1>7 DEF AcceptFails
<1>8. CASE HandleAccept
  <2>1. waiting \in Clients
    BY <1>8 DEF HandleAccept, Structure
  <2>2. sessions' \in Seq(Clients) /\ from' \in [Clients -> Nat]
        /\ reading' \in [Clients -> BOOLEAN]
    BY <1>8, <2>1 DEF HandleAccept
  <2>3. caller # "each"
    BY <1>8 DEF HandleAccept, Structure
  <2> QED
    BY <1>8, <2>2, <2>3 DEF HandleAccept
<1>9. CASE CloseSession
  <2>1. OtherSessions \in Seq(Clients)
    BY <1>9, OtherSessionsFacts DEF CloseSession, Structure
  <2>2. caller # "each"
    BY <1>9 DEF CloseSession, Structure
  <2> QED
    BY <1>9, <2>1, <2>2 DEF CloseSession
<1>10. ASSUME NEW s \in Clients, HandleRead(s) PROVE TypeOK'
  <2>1. PICK n \in Chunks : pendingData' = pendingData \o Arrived(n) /\ bytes' = bytes + n
    BY <1>10 DEF HandleRead
  <2>2. Arrived(n) \in Seq(Nat)
    BY DEF Arrived
  <2>3. pendingData' \in Seq(Nat) /\ bytes' \in Nat
    BY <2>1, <2>2
  <2> QED
    BY <1>10, <2>3 DEF HandleRead
<1>11. ASSUME NEW s \in Clients, HandleReadError(s) PROVE TypeOK'
  BY <1>11 DEF HandleReadError
<1>12. ASSUME NEW s \in Clients, HandleWrite(s) PROVE TypeOK'
  <2>1. writeBuffer[s] # <<>>
    BY <1>12 DEF HandleWrite, Writers
  <2>2. Tail(writeBuffer[s]) \in Seq(Nat) /\ Head(writeBuffer[s]) \in Nat
    BY <2>1
  <2>3. Append(received[s], Head(writeBuffer[s])) \in Seq(Nat)
    BY <2>2
  <2>4. /\ writeBuffer' \in [Clients -> Seq(Nat)] /\ received' \in [Clients -> Seq(Nat)]
    BY <1>12, <2>2, <2>3 DEF HandleWrite
  <2>5. writing' \in [Clients -> BOOLEAN]
    BY <1>12 DEF HandleWrite
  <2> QED
    BY <1>12, <2>4, <2>5 DEF HandleWrite
<1>13. ASSUME NEW s \in Clients, HandleWriteError(s) PROVE TypeOK'
  <2>1. Tail(writeBuffer[s]) \in Seq(Nat)
    BY <1>13 DEF HandleWriteError, Writers
  <2>2. writeBuffer' \in [Clients -> Seq(Nat)] /\ writing' \in [Clients -> BOOLEAN]
    BY <1>13, <2>1 DEF HandleWriteError
  <2> QED
    BY <1>13, <2>2 DEF HandleWriteError
<1>14. ASSUME NEW s \in Clients, Leave(s) PROVE TypeOK'
  BY <1>14 DEF Leave
<1>15. CASE UNCHANGED vars
  BY <1>15 DEF vars
<1> QED
  BY <1>1, <1>2, <1>3, <1>4, <1>5, <1>6, <1>7, <1>8, <1>9, <1>10, <1>11,
     <1>12, <1>13, <1>14, <1>15 DEF Next, CallerStep, HandlerStep

-----------------------------------------------------------------------------
(* Locks and the list of sessions                                          *)

LEMMA StructureStep ==
  TypeOK /\ Structure /\ Writers /\ [Next]_vars => Structure'
<1> SUFFICES ASSUME TypeOK, Structure, Writers, [Next]_vars PROVE Structure'
  OBVIOUS
<1>0. Len(sessions) \in Nat /\ \A i \in 1 .. Len(sessions) : sessions[i] \in Clients
  BY DEF TypeOK
<1> USE ClientsAssumption DEF Structure, Listed, StartAccept
<1>1. CASE CallWrite
  BY <1>1 DEF CallWrite
<1>2. CASE LockSessions
  BY <1>2 DEF LockSessions, TypeOK
<1>3. CASE WriteSession
  BY <1>3 DEF WriteSession
<1>4. CASE EndWrite
  BY <1>4 DEF EndWrite
<1>5. CASE Read
  BY <1>5 DEF Read
<1>6. CASE Accept
  BY <1>6 DEF Accept
<1>7. CASE AcceptFails
  <2>1. /\ waiting' \notin created /\ created \subseteq created'
        /\ waiting' # NoClient => waiting' \in created'
        /\ UNCHANGED <<sessions, sessionsLock, caller, writes, io, closing>>
        /\ io = "poll"
    BY <1>7 DEF AcceptFails, TypeOK
  <2> QED
    BY <2>1
<1>8. CASE HandleAccept
  <2>1. waiting \in Clients /\ sessions' = Append(sessions, waiting)
    BY <1>8 DEF HandleAccept, TypeOK
  <2>2. /\ Len(sessions') = Len(sessions) + 1
        /\ \A i \in 1 .. Len(sessions) : sessions'[i] = sessions[i]
        /\ sessions'[Len(sessions) + 1] = waiting
    BY <2>1, AppendFacts DEF TypeOK
  <2>3. /\ io' = "poll" /\ closing = NoClient
        /\ waiting' # waiting /\ waiting' \notin created
        /\ created \subseteq created' /\ (waiting' # NoClient => waiting' \in created')
        /\ UNCHANGED <<closing, sessionsLock, caller, writes>>
    BY <1>8 DEF HandleAccept, TypeOK
  <2>4. \A i \in 1 .. Len(sessions') : sessions'[i] \in created' /\ sessions'[i] # waiting'
    <3> SUFFICES ASSUME NEW i \in 1 .. Len(sessions) + 1
                 PROVE  sessions'[i] \in created' /\ sessions'[i] # waiting'
      BY <2>2
    <3>1. CASE i = Len(sessions) + 1
      BY <2>1, <2>2, <2>3, <3>1
    <3>2. CASE i \in 1 .. Len(sessions)
      BY <2>2, <2>3, <3>2
    <3> QED
      BY <1>0, <3>1, <3>2
  <2>5. \A i, j \in 1 .. Len(sessions') : sessions'[i] = sessions'[j] => i = j
    <3> SUFFICES ASSUME NEW i \in 1 .. Len(sessions) + 1,
                        NEW j \in 1 .. Len(sessions) + 1, sessions'[i] = sessions'[j]
                 PROVE  i = j
      BY <2>2
    <3>1. CASE i \in 1 .. Len(sessions) /\ j \in 1 .. Len(sessions)
      BY <2>2, <3>1
    <3>2. CASE i = Len(sessions) + 1 \/ j = Len(sessions) + 1
      BY <1>0, <2>1, <2>2, <3>2
    <3> QED
      BY <1>0, <3>1, <3>2
  <2> QED
    BY <2>3, <2>4, <2>5
<1>9. CASE CloseSession
  <2>1. PICK p \in 1 .. Len(sessions) :
          /\ sessions[p] = closing
          /\ Len(OtherSessions) = Len(sessions) - 1
          /\ \A k \in 1 .. Len(sessions) - 1 :
               OtherSessions[k] = IF k < p THEN sessions[k] ELSE sessions[k + 1]
    BY <1>9, OtherSessionsFacts DEF CloseSession
  <2>2. /\ Len(sessions') = Len(sessions) - 1
        /\ \A k \in 1 .. Len(sessions) - 1 :
             sessions'[k] = IF k < p THEN sessions[k] ELSE sessions[k + 1]
    BY <1>9, <2>1 DEF CloseSession
  <2>3. /\ io' = "poll" /\ closing' = NoClient
        /\ UNCHANGED <<waiting, created, sessionsLock, caller, writes>>
    BY <1>9 DEF CloseSession
  <2>4. \A i \in 1 .. Len(sessions') : sessions'[i] \in created' /\ sessions'[i] # waiting'
    BY <1>0, <2>2, <2>3
  <2>5. \A i, j \in 1 .. Len(sessions') : sessions'[i] = sessions'[j] => i = j
    <3> SUFFICES ASSUME NEW i \in 1 .. Len(sessions) - 1,
                        NEW j \in 1 .. Len(sessions) - 1, sessions'[i] = sessions'[j]
                 PROVE  i = j
      BY <2>2
    <3> DEFINE f(k) == IF k < p THEN k ELSE k + 1
    <3>1. f(i) \in 1 .. Len(sessions) /\ f(j) \in 1 .. Len(sessions)
      BY <1>0
    <3>2. sessions'[i] = sessions[f(i)] /\ sessions'[j] = sessions[f(j)]
      BY <2>2
    <3>3. f(i) = f(j)
      <4> HIDE DEF f
      <4> QED
        BY <3>1, <3>2
    <3> QED
      BY <1>0, <3>3
  <2> QED
    BY <2>3, <2>4, <2>5
<1>10. ASSUME NEW s \in Clients, HandleRead(s) PROVE Structure'
  BY <1>10 DEF HandleRead
<1>11. ASSUME NEW s \in Clients, HandleReadError(s) PROVE Structure'
  BY <1>11 DEF HandleReadError
<1>12. ASSUME NEW s \in Clients, HandleWrite(s) PROVE Structure'
  BY <1>12 DEF HandleWrite
<1>13. ASSUME NEW s \in Clients, HandleWriteError(s) PROVE Structure'
  <2>1. Listed(s)
    BY <1>13 DEF HandleWriteError, Writers
  <2> QED
    BY <1>13, <2>1 DEF HandleWriteError
<1>14. ASSUME NEW s \in Clients, Leave(s) PROVE Structure'
  BY <1>14 DEF Leave
<1>15. CASE UNCHANGED vars
  BY <1>15 DEF vars
<1> QED
  BY <1>1, <1>2, <1>3, <1>4, <1>5, <1>6, <1>7, <1>8, <1>9, <1>10, <1>11,
     <1>12, <1>13, <1>14, <1>15 DEF Next, CallerStep, HandlerStep

\* Who is listed before a session is accepted or closed still is afterwards,
\* but for the closed one.
LEMMA ListedKept ==
  ASSUME TypeOK, Structure, HandleAccept \/ CloseSession,
         NEW t \in Clients, Listed(t), t # closing
  PROVE  Listed(t)'
<1> USE DEF Structure, Listed
<1>0. Len(sessions) \in Nat
  BY DEF TypeOK
<1>1. PICK i \in 1 .. Len(sessions) : sessions[i] = t
  OBVIOUS
<1>2. CASE HandleAccept
  <2>1. waiting \in Clients /\ sessions' = Append(sessions, waiting)
    BY <1>2 DEF HandleAccept, TypeOK
  <2>2. i \in 1 .. Len(sessions') /\ sessions'[i] = t
    <3>1. /\ Len(sessions') = Len(sessions) + 1
          /\ \A k \in 1 .. Len(sessions) : sessions'[k] = sessions[k]
      BY <2>1, AppendFacts DEF TypeOK
    <3> QED
      BY <1>0, <1>1, <3>1
  <2> QED
    BY <2>2
<1>3. CASE CloseSession
  <2>1. PICK p \in 1 .. Len(sessions) :
          /\ sessions[p] = closing
          /\ Len(OtherSessions) = Len(sessions) - 1
          /\ \A k \in 1 .. Len(sessions) - 1 :
               OtherSessions[k] = IF k < p THEN sessions[k] ELSE sessions[k + 1]
    BY <1>3, OtherSessionsFacts DEF CloseSession
  <2>2. sessions' = OtherSessions /\ i # p
    BY <1>1, <1>3, <2>1 DEF CloseSession
  <2>3. CASE i < p
    <3>1. i \in 1 .. Len(sessions) - 1 /\ OtherSessions[i] = sessions[i]
      BY <1>0, <2>1, <2>3
    <3> QED
      BY <1>1, <2>1, <2>2, <3>1
  <2>4. CASE i > p
    <3>1. i - 1 \in 1 .. Len(sessions) - 1 /\ OtherSessions[i - 1] = sessions[i]
      <4>1. i - 1 \in 1 .. Len(sessions) - 1 /\ ~(i - 1 < p)
        BY <1>0, <2>4
      <4>2. OtherSessions[i - 1] = sessions[(i - 1) + 1]
        BY <2>1, <4>1
      <4> QED
        BY <4>1, <4>2
    <3> QED
      BY <1>1, <2>1, <2>2, <3>1
  <2> QED
    BY <1>0, <2>2, <2>3, <2>4
<1> QED
  BY <1>2, <1>3

-----------------------------------------------------------------------------
(* Writes under way                                                        *)

LEMMA WritersStep ==
  TypeOK /\ Structure /\ Writers /\ [Next]_vars => Writers'
<1> SUFFICES ASSUME TypeOK, Structure, Writers, [Next]_vars, NEW t \in Clients
             PROVE  /\ t \notin created' \/ t = waiting' =>
                         received'[t] = <<>> /\ writeBuffer'[t] = <<>>
                    /\ writing'[t] => Listed(t)' /\ t # closing' /\ writeBuffer'[t] # <<>>
  BY DEF Writers
<1> DEFINE Goal == /\ t \notin created \/ t = waiting =>
                        received[t] = <<>> /\ writeBuffer[t] = <<>>
                   /\ writing[t] => Listed(t) /\ t # closing /\ writeBuffer[t] # <<>>
<1>0. Goal
  BY DEF Writers
<1> SUFFICES Goal'
  OBVIOUS
<1> USE <1>0 DEF StartAccept
<1>1. CASE CallWrite
  BY <1>1 DEF CallWrite, Listed
<1>2. CASE LockSessions
  BY <1>2 DEF LockSessions, Listed
<1>3. CASE WriteSession
  <2>0. place \in 1 .. Len(sessions) /\ sessions[place] \in Clients
    BY <1>3 DEF WriteSession, TypeOK
  <2> PICK s \in Clients : s = sessions[place]
    BY <2>0
  <2>1. place \in 1 .. Len(sessions) /\ s # closing
        /\ writeBuffer[s] \in Seq(Nat) /\ writes \in Nat
    BY <1>3, <2>0 DEF WriteSession, TypeOK
  <2>2. /\ UNCHANGED <<sessions, waiting, created, received, closing>>
        /\ writeBuffer' = [writeBuffer EXCEPT ![s] = Append(@, writes)]
        /\ writing' = [writing EXCEPT ![s] = @ \/ writeBuffer[s] = <<>>]
    BY <1>3 DEF WriteSession
  <2>3. CASE t = s
    <3>1. writeBuffer'[s] = Append(writeBuffer[s], writes)
      BY <2>1, <2>2 DEF TypeOK
    <3>2. writeBuffer'[s] # <<>>
      BY <2>1, <3>1, AppendFacts
    <3>3. Listed(s)' /\ s \in created' /\ s # waiting' /\ s # closing'
      BY <2>1, <2>2 DEF Structure, Listed
    <3> QED
      BY <2>3, <3>2, <3>3
  <2>4. CASE t # s
    <3>1. writeBuffer'[t] = writeBuffer[t] /\ writing'[t] = writing[t]
      BY <2>2, <2>4 DEF TypeOK
    <3> QED
      BY <2>2, <3>1 DEF Listed
  <2> QED
    BY <2>3, <2>4
<1>4. CASE EndWrite
  BY <1>4 DEF EndWrite, Listed
<1>5. CASE Read
  BY <1>5 DEF Read, Listed
<1>6. CASE Accept
  BY <1>6 DEF Accept, Listed
<1>7. CASE AcceptFails
  <2>1. t \notin created' \/ t = waiting' => t \notin created
    BY <1>7, ClientsAssumption DEF AcceptFails
  <2> QED
    BY <1>7, <2>1 DEF AcceptFails, Listed
<1>8. CASE HandleAccept
  <2>1. t \notin created' \/ t = waiting' => t \notin created
    BY <1>8, ClientsAssumption DEF HandleAccept
  <2>2. UNCHANGED <<writeBuffer, writing, received, closing>>
    BY <1>8 DEF HandleAccept
  <2>3. writing[t] => Listed(t)'
    BY <1>8, ListedKept
  <2> QED
    BY <2>1, <2>2, <2>3
<1>9. CASE CloseSession
  <2>1. /\ UNCHANGED <<waiting, created, writeBuffer, writing, received>>
        /\ closing' = NoClient
    BY <1>9 DEF CloseSession
  <2>2. writing[t] => Listed(t)'
    BY <1>9, ListedKept
  <2> QED
    BY <2>1, <2>2, ClientsAssumption
<1>10. ASSUME NEW s \in Clients, HandleRead(s) PROVE Goal'
  BY <1>10 DEF HandleRead, Listed
<1>11. ASSUME NEW s \in Clients, HandleReadError(s) PROVE Goal'
  BY <1>11 DEF HandleReadError, Listed
<1>12. ASSUME NEW s \in Clients, HandleWrite(s) PROVE Goal'
  <2>1. s \in created /\ s # waiting /\ Listed(s) /\ s # closing
    BY <1>12 DEF HandleWrite, Writers, Structure, Listed
  <2>2. UNCHANGED <<sessions, waiting, created, closing>>
    BY <1>12 DEF HandleWrite
  <2>3. CASE t = s
    <3>1. writing'[s] = (Tail(writeBuffer[s]) # <<>>)
          /\ writeBuffer'[s] = Tail(writeBuffer[s])
      BY <1>12 DEF HandleWrite, TypeOK
    <3> QED
      BY <2>1, <2>2, <2>3, <3>1 DEF Listed
  <2>4. CASE t # s
    <3>1. /\ writing'[t] = writing[t] /\ writeBuffer'[t] = writeBuffer[t]
          /\ received'[t] = received[t]
      BY <1>12, <2>4 DEF HandleWrite, TypeOK
    <3> QED
      BY <2>2, <3>1 DEF Listed
  <2> QED
    BY <2>3, <2>4
<1>13. ASSUME NEW s \in Clients, HandleWriteError(s) PROVE Goal'
  <2>1. s \in created /\ s # waiting
    BY <1>13 DEF HandleWriteError, Writers, Structure, Listed
  <2>2. UNCHANGED <<sessions, waiting, created, received>> /\ closing' = s
    BY <1>13 DEF HandleWriteError
  <2>3. CASE t = s
    <3>1. ~writing'[s]
      BY <1>13 DEF HandleWriteError, TypeOK
    <3> QED
      BY <2>1, <2>2, <2>3, <3>1
  <2>4. CASE t # s
    <3>1. writing'[t] = writing[t] /\ writeBuffer'[t] = writeBuffer[t]
      BY <1>13, <2>4 DEF HandleWriteError, TypeOK
    <3> QED
      BY <2>2, <2>4, <3>1 DEF Listed
  <2> QED
    BY <2>3, <2>4
<1>14. ASSUME NEW s \in Clients, Leave(s) PROVE Goal'
  BY <1>14 DEF Leave, Listed
<1>15. CASE UNCHANGED vars
  BY <1>15 DEF vars, Listed
<1> QED
  BY <1>1, <1>2, <1>3, <1>4, <1>5, <1>6, <1>7, <1>8, <1>9, <1>10, <1>11,
     <1>12, <1>13, <1>14, <1>15 DEF Next, CallerStep, HandlerStep

-----------------------------------------------------------------------------
(* The order of messages                                                   *)

LEMMA Counts ==
  ASSUME TypeOK, NEW s \in Clients
  PROVE  /\ Len(writeBuffer[s]) \in Nat /\ Len(received[s]) \in Nat
         /\ from[s] \in Nat /\ writes \in Nat
<1>1. writeBuffer[s] \in Seq(Nat) /\ received[s] \in Seq(Nat) /\ from[s] \in Nat
  BY DEF TypeOK
<1> QED
  BY <1>1 DEF TypeOK

\* A message has moved from the queue to the client.
LEMMA OneMoved ==
  ASSUME NEW f \in Nat, NEW r \in Nat, NEW b \in Nat, NEW w,
         f + r + b = w
  PROVE  f + (r + 1) + (b - 1) = w
  OBVIOUS

LEMMA NumberMoved ==
  ASSUME NEW f \in Nat, NEW r \in Nat, NEW k \in Nat
  PROVE  f + r + (k + 1) = f + (r + 1) + k
OBVIOUS

LEMMA OrderStep ==
  TypeOK /\ Structure /\ Writers /\ Numbered /\ DeliveredInOrder /\ [Next]_vars =>
    DeliveredInOrder'
<1> SUFFICES ASSUME TypeOK, Structure, Writers, Numbered, DeliveredInOrder,
                    [Next]_vars, NEW t \in Clients,
                    NEW i \in 1 .. Len(received'[t])
             PROVE  received'[t][i] = from'[t] + i
  BY DEF DeliveredInOrder
<1> DEFINE Goal == received'[t][i] = from'[t] + i
<1>1. CASE UNCHANGED <<received, from>>
  BY <1>1 DEF DeliveredInOrder
<1>2. CASE HandleAccept
  <2>1. received' = received /\ received[waiting] = <<>> /\ waiting \in Clients
    BY <1>2 DEF HandleAccept, Structure, Writers, TypeOK
  <2>2. t # waiting
    BY <2>1
  <2>3. from'[t] = from[t]
    BY <1>2, <2>2 DEF HandleAccept, TypeOK
  <2> QED
    BY <2>1, <2>3 DEF DeliveredInOrder
<1>3. ASSUME NEW s \in Clients, HandleWrite(s) PROVE Goal
  <2>1. UNCHANGED from
    BY <1>3 DEF HandleWrite
  <2>2. CASE t # s
    <3>1. received'[t] = received[t]
      BY <1>3, <2>2 DEF HandleWrite, TypeOK
    <3> QED
      BY <2>1, <3>1 DEF DeliveredInOrder
  <2>3. CASE t = s
    <3>1. /\ received'[s] = Append(received[s], Head(writeBuffer[s]))
          /\ received[s] \in Seq(Nat) /\ writeBuffer[s] \in Seq(Nat)
      BY <1>3 DEF HandleWrite, TypeOK
    <3>2. writeBuffer[s] # <<>> /\ Listed(s) /\ s # closing
      BY <1>3 DEF HandleWrite, Writers
    <3>3. Head(writeBuffer[s]) = writeBuffer[s][1] /\ Len(writeBuffer[s]) > 0
          /\ Head(writeBuffer[s]) \in Nat
      BY <3>1, <3>2, TailFacts
    <3>4. Head(writeBuffer[s]) = from[s] + Len(received[s]) + 1
      <4>1. Continued(s)
        BY <3>2 DEF Numbered, Listed
      <4> QED
        BY <3>1, <3>3, <4>1 DEF Continued
    <3>5. /\ Len(received'[s]) = Len(received[s]) + 1
          /\ \A k \in 1 .. Len(received[s]) : received'[s][k] = received[s][k]
          /\ received'[s][Len(received[s]) + 1] = Head(writeBuffer[s])
      BY <3>1, <3>3, AppendFacts
    <3>6. from[s] \in Nat /\ Len(received[s]) \in Nat
      BY <3>1 DEF TypeOK
    <3>7. CASE i = Len(received[s]) + 1
      <4>1. received'[t][i] = from[s] + Len(received[s]) + 1
        BY <2>3, <3>4, <3>5, <3>7
      <4> QED
        BY <2>1, <2>3, <3>6, <3>7, <4>1
    <3>8. CASE i \in 1 .. Len(received[s])
      BY <2>1, <2>3, <3>5, <3>8 DEF DeliveredInOrder
    <3> QED
      BY <2>3, <3>5, <3>6, <3>7, <3>8
  <2> QED
    BY <2>2, <2>3
<1> QED
  BY <1>1, <1>2, <1>3
  DEF Next, CallerStep, HandlerStep, vars, CallWrite, LockSessions, WriteSession,
      EndWrite, Read, Accept, AcceptFails, CloseSession, HandleRead,
      HandleReadError, HandleWriteError, Leave

\* Two places of the list hold two sessions, so that what happens to one
\* session leaves the others alone.
LEMMA OthersKept ==
  ASSUME TypeOK, Structure, Numbered,
         UNCHANGED <<sessions, closing, from, writes, caller>>,
         NEW s \in Clients, NEW i \in 1 .. Len(sessions),
         sessions[i] # s, sessions[i] # closing, Given(i)' = Given(i),
         writeBuffer'[sessions[i]] = writeBuffer[sessions[i]],
         writing'[sessions[i]] = writing[sessions[i]],
         received'[sessions[i]] = received[sessions[i]]
  PROVE  /\ from'[sessions'[i]] + Len(received'[sessions'[i]])
              + Len(writeBuffer'[sessions'[i]]) = Given(i)'
         /\ Continued(sessions[i])'
         /\ writeBuffer'[sessions'[i]] # <<>> => writing'[sessions'[i]]
  BY DEF Numbered, Continued

LEMMA NumberedStep ==
  TypeOK /\ Structure /\ Writers /\ Numbered /\ [Next]_vars => Numbered'
<1> SUFFICES ASSUME TypeOK, Structure, Writers, Numbered, [Next]_vars,
                    NEW i \in 1 .. Len(sessions'), sessions'[i] # closing'
             PROVE  /\ from'[sessions'[i]] + Len(received'[sessions'[i]])
                         + Len(writeBuffer'[sessions'[i]]) = Given(i)'
                    /\ Continued(sessions[i])'
                    /\ writeBuffer'[sessions'[i]] # <<>> => writing'[sessions'[i]]
  BY DEF Numbered
<1> DEFINE Goal == /\ from[sessions[i]] + Len(received[sessions[i]])
                        + Len(writeBuffer[sessions[i]]) = Given(i)
                   /\ Continued(sessions[i])
                   /\ writeBuffer[sessions[i]] # <<>> => writing[sessions[i]]
<1> SUFFICES Goal'
  OBVIOUS
<1>0. Len(sessions) \in Nat /\ \A k \in 1 .. Len(sessions) : sessions[k] \in Clients
  BY DEF TypeOK
<1>1. CASE UNCHANGED <<sessions, closing, from, received, writeBuffer, writing>>
           /\ Given(i)' = Given(i)
  BY <1>1 DEF Numbered, Continued
<1>2. CASE LockSessions
  <2>1. Given(i)' = Given(i)
    BY <1>0, <1>2 DEF LockSessions, Given, TypeOK
  <2> QED
    BY <1>1, <1>2, <2>1 DEF LockSessions
<1>3. CASE EndWrite
  <2>1. Given(i)' = Given(i)
    BY <1>0, <1>3 DEF EndWrite, Given, TypeOK
  <2> QED
    BY <1>1, <1>3, <2>1 DEF EndWrite
<1>4. CASE WriteSession
  <2>0. place \in 1 .. Len(sessions) /\ sessions[place] \in Clients
    BY <1>4 DEF WriteSession, TypeOK
  <2> PICK s \in Clients : s = sessions[place]
    BY <2>0
  <2>1. /\ UNCHANGED <<sessions, closing, from, received, caller, writes>>
        /\ place' = place + 1 /\ caller = "each" /\ s # closing
        /\ writeBuffer' = [writeBuffer EXCEPT ![s] = Append(@, writes)]
        /\ writing' = [writing EXCEPT ![s] = @ \/ writeBuffer[s] = <<>>]
    BY <1>4 DEF WriteSession
  <2>2. CASE i = place
    <3>1. /\ sessions'[i] = s /\ Given(place) = writes - 1 /\ Given(i)' = writes
      BY <2>0, <2>1, <2>2 DEF Given
    <3>2. /\ writeBuffer'[s] = Append(writeBuffer[s], writes)
          /\ writing'[s] = (writing[s] \/ writeBuffer[s] = <<>>)
          /\ writeBuffer[s] \in Seq(Nat) /\ writes \in Nat
          /\ received[s] \in Seq(Nat) /\ from[s] \in Nat
      BY <2>1 DEF TypeOK
    <3>3. /\ Len(writeBuffer'[s]) = Len(writeBuffer[s]) + 1
          /\ \A k \in 1 .. Len(writeBuffer[s]) : writeBuffer'[s][k] = writeBuffer[s][k]
          /\ writeBuffer'[s][Len(writeBuffer[s]) + 1] = writes
      BY <3>2, AppendFacts
    <3>4. /\ from[s] + Len(received[s]) + Len(writeBuffer[s]) = Given(place)
          /\ Continued(s)
          /\ writeBuffer[s] # <<>> => writing[s]
      BY <2>0, <2>1 DEF Numbered
    <3>5. /\ Len(writeBuffer[s]) \in Nat /\ Len(received[s]) \in Nat
          /\ from[s] \in Nat /\ writes \in Nat
      BY Counts
    <3>6. from[s] + Len(received[s]) + (Len(writeBuffer[s]) + 1) = writes
      <4> DEFINE f == from[s]
                 r == Len(received[s])
                 b == Len(writeBuffer[s])
      <4>1. f \in Nat /\ r \in Nat /\ b \in Nat /\ writes \in Nat /\ f + r + b = writes - 1
        BY <3>1, <3>4, <3>5
      <4> HIDE DEF f, r, b
      <4>2. f + r + (b + 1) = writes
        BY <4>1
      <4> QED
        BY <4>2 DEF f, r, b
    <3>7. from'[s] + Len(received'[s]) + Len(writeBuffer'[s]) = writes
      BY <2>1, <3>3, <3>6
    <3>8. \A k \in 1 .. Len(writeBuffer'[s]) :
            writeBuffer'[s][k] = from'[s] + Len(received'[s]) + k
      <4> SUFFICES ASSUME NEW k \in 1 .. Len(writeBuffer[s]) + 1
                   PROVE  writeBuffer'[s][k] = from[s] + Len(received[s]) + k
        BY <2>1, <3>3
      <4>1. CASE k = Len(writeBuffer[s]) + 1
        BY <3>3, <3>6, <4>1
      <4>2. CASE k \in 1 .. Len(writeBuffer[s])
        BY <3>3, <3>4, <4>2 DEF Continued
      <4> QED
        BY <3>5, <4>1, <4>2
    <3>9. writing'[s]
      BY <3>2, <3>4, Zenon
    <3> QED
      BY <3>1, <3>7, <3>8, <3>9 DEF Continued
  <2>3. CASE i # place
    <3>1. sessions[i] # s /\ i \in 1 .. Len(sessions)
      BY <2>0, <2>1, <2>3 DEF Structure
    <3>2. Given(i)' = Given(i)
      BY <1>0, <2>0, <2>1, <2>3 DEF Given
    <3>3. /\ writeBuffer'[sessions[i]] = writeBuffer[sessions[i]]
          /\ writing'[sessions[i]] = writing[sessions[i]]
      BY <1>0, <2>1, <3>1 DEF TypeOK
    <3> QED
      BY <1>0, <2>1, <3>1, <3>2, <3>3, OthersKept
  <2> QED
    BY <2>2, <2>3
<1>5. CASE HandleAccept
  <2>1. waiting \in Clients /\ sessions' = Append(sessions, waiting)
        /\ from' = [from EXCEPT ![waiting] = writes]
        /\ UNCHANGED <<closing, writeBuffer, writing, received, caller, writes, place>>
        /\ caller # "each"
    BY <1>5 DEF HandleAccept, TypeOK, Structure
  <2>2. /\ Len(sessions') = Len(sessions) + 1
        /\ \A k \in 1 .. Len(sessions) : sessions'[k] = sessions[k]
        /\ sessions'[Len(sessions) + 1] = waiting
    BY <2>1, AppendFacts DEF TypeOK
  <2>3. Given(i)' = writes
    BY <2>1 DEF Given
  <2>4. CASE i = Len(sessions) + 1
    <3>1. received'[waiting] = <<>> /\ writeBuffer'[waiting] = <<>>
      BY <2>1 DEF Writers
    <3>2. from'[waiting] = writes /\ writes \in Nat
      BY <2>1 DEF TypeOK
    <3> QED
      BY <2>2, <2>3, <2>4, <3>1, <3>2 DEF Continued
  <2>5. CASE i \in 1 .. Len(sessions)
    <3>1. sessions'[i] = sessions[i] /\ sessions[i] # waiting /\ sessions[i] # closing
      BY <2>1, <2>2, <2>5 DEF Structure
    <3>2. from'[sessions[i]] = from[sessions[i]] /\ Given(i) = writes
      BY <1>0, <2>1, <2>5, <3>1 DEF TypeOK, Given
    <3> QED
      BY <2>1, <2>3, <2>5, <3>1, <3>2 DEF Numbered, Continued
  <2> QED
    BY <1>0, <2>2, <2>4, <2>5
<1>6. CASE CloseSession
  <2>1. PICK p \in 1 .. Len(sessions) :
          /\ sessions[p] = closing
          /\ Len(OtherSessions) = Len(sessions) - 1
          /\ \A k \in 1 .. Len(sessions) - 1 :
               OtherSessions[k] = IF k < p THEN sessions[k] ELSE sessions[k + 1]
    BY <1>6, OtherSessionsFacts DEF CloseSession, Structure
  <2>2. sessions' = OtherSessions /\ caller # "each"
        /\ UNCHANGED <<from, writeBuffer, writing, received, caller, writes, place>>
    BY <1>6 DEF CloseSession, Structure
  <2>3. \A k \in 1 .. Len(sessions) : Given(k) = writes
    BY <2>2 DEF Given
  <2>4. Given(i)' = writes
    BY <2>2 DEF Given
  <2>5. \E k \in 1 .. Len(sessions) : sessions'[i] = sessions[k] /\ k # p
    <3>1. i \in 1 .. Len(sessions) - 1
      BY <2>1, <2>2
    <3>2. CASE i < p
      BY <1>0, <2>1, <2>2, <3>1, <3>2
    <3>3. CASE ~(i < p)
      <4>1. i + 1 \in 1 .. Len(sessions) /\ i + 1 # p
        BY <1>0, <3>1, <3>3
      <4> QED
        BY <2>1, <2>2, <3>1, <3>3, <4>1
    <3> QED
      BY <3>2, <3>3
  <2>6. PICK k \in 1 .. Len(sessions) : sessions'[i] = sessions[k] /\ k # p
    BY <2>5
  <2>7. sessions[k] # closing
    BY <2>1, <2>6 DEF Structure
  <2> QED
    BY <2>2, <2>3, <2>4, <2>6, <2>7 DEF Numbered, Continued
<1>7. ASSUME NEW s \in Clients, HandleWrite(s) PROVE Goal'
  <2>1. /\ UNCHANGED <<sessions, closing, from, caller, place, writes>>
        /\ received' = [received EXCEPT ![s] = Append(@, Head(writeBuffer[s]))]
        /\ writeBuffer' = [writeBuffer EXCEPT ![s] = Tail(@)]
        /\ writing' = [writing EXCEPT ![s] = Tail(writeBuffer[s]) # <<>>]
    BY <1>7 DEF HandleWrite
  <2>2. Given(i)' = Given(i) /\ i \in 1 .. Len(sessions)
    BY <2>1 DEF Given
  <2>3. CASE sessions[i] = s
    <3>1. /\ received'[s] = Append(received[s], Head(writeBuffer[s]))
          /\ writeBuffer'[s] = Tail(writeBuffer[s])
          /\ writing'[s] = (Tail(writeBuffer[s]) # <<>>)
          /\ received[s] \in Seq(Nat) /\ writeBuffer[s] \in Seq(Nat) /\ from[s] \in Nat
      BY <2>1 DEF TypeOK
    <3>2. writeBuffer[s] # <<>> /\ s # closing
      BY <1>7 DEF HandleWrite, Writers
    <3>3. /\ Len(Tail(writeBuffer[s])) = Len(writeBuffer[s]) - 1
          /\ \A k \in 1 .. Len(writeBuffer[s]) - 1 : Tail(writeBuffer[s])[k] = writeBuffer[s][k + 1]
          /\ Head(writeBuffer[s]) \in Nat
      BY <3>1, <3>2, TailFacts
    <3>4. Len(received'[s]) = Len(received[s]) + 1
      BY <3>1, <3>3, AppendFacts
    <3>5. /\ from[s] + Len(received[s]) + Len(writeBuffer[s]) = Given(i)
          /\ Continued(s)
      BY <2>2, <2>3, <3>2 DEF Numbered
    <3>6. Len(writeBuffer[s]) \in Nat /\ Len(received[s]) \in Nat /\ from[s] \in Nat
      BY Counts
    <3>7. from'[s] + Len(received'[s]) + Len(writeBuffer'[s]) = Given(i)'
      <4>1. from[s] + (Len(received[s]) + 1) + (Len(writeBuffer[s]) - 1) = Given(i)
        BY <3>5, <3>6, OneMoved
      <4>2. /\ Len(writeBuffer'[s]) = Len(writeBuffer[s]) - 1
            /\ from'[s] = from[s]
        BY <2>1, <3>1, <3>3
      <4> QED
        BY <2>2, <3>4, <4>1, <4>2
    <3>8. \A k \in 1 .. Len(writeBuffer'[s]) :
            writeBuffer'[s][k] = from'[s] + Len(received'[s]) + k
      <4> SUFFICES ASSUME NEW k \in 1 .. Len(writeBuffer[s]) - 1
                   PROVE  writeBuffer'[s][k] = from[s] + (Len(received[s]) + 1) + k
        BY <2>1, <3>1, <3>3, <3>4
      <4>1. writeBuffer'[s][k] = writeBuffer[s][k + 1]
        BY <3>1, <3>3
      <4>3. k + 1 \in 1 .. Len(writeBuffer[s])
        BY <3>6
      <4>2. writeBuffer[s][k + 1] = from[s] + Len(received[s]) + (k + 1)
        BY <3>5, <4>3 DEF Continued
      <4> QED
        <5>1. k \in Nat
          BY <3>6
        <5>2. from[s] + Len(received[s]) + (k + 1) = from[s] + (Len(received[s]) + 1) + k
          <6>1. PICK f \in Nat, r \in Nat : f = from[s] /\ r = Len(received[s])
            BY <3>6
          <6>2. f + r + (k + 1) = f + (r + 1) + k
            BY <5>1, NumberMoved
          <6> QED
            BY <6>1, <6>2
        <5> QED
          BY <4>1, <4>2, <5>2
    <3> QED
      BY <2>1, <2>3, <3>1, <3>7, <3>8 DEF Continued
  <2>4. CASE sessions[i] # s
    <3>1. /\ writeBuffer'[sessions[i]] = writeBuffer[sessions[i]]
          /\ writing'[sessions[i]] = writing[sessions[i]]
          /\ received'[sessions[i]] = received[sessions[i]]
      BY <1>0, <2>1, <2>2, <2>4 DEF TypeOK
    <3> QED
      BY <2>1, <2>2, <2>4, <3>1, OthersKept
  <2> QED
    BY <2>3, <2>4
<1>8. ASSUME NEW s \in Clients, HandleWriteError(s) PROVE Goal'
  <2>1. /\ UNCHANGED <<sessions, from, received, caller, place, writes>>
        /\ closing' = s /\ closing = NoClient
        /\ writeBuffer' = [writeBuffer EXCEPT ![s] = Tail(@)]
        /\ writing' = [writing EXCEPT ![s] = FALSE]
    BY <1>8 DEF HandleWriteError, Structure
  <2>2. Given(i)' = Given(i) /\ i \in 1 .. Len(sessions)
        /\ sessions[i] # s /\ sessions[i] # closing
    BY <1>0, <2>1, ClientsAssumption DEF Given
  <2>3. /\ writeBuffer'[sessions[i]] = writeBuffer[sessions[i]]
        /\ writing'[sessions[i]] = writing[sessions[i]]
    BY <1>0, <2>1, <2>2 DEF TypeOK
  <2> QED
    BY <2>1, <2>2, <2>3 DEF Numbered, Continued
<1> QED
  BY <1>1, <1>2, <1>3, <1>4, <1>5, <1>6, <1>7, <1>8
  DEF Next, CallerStep, HandlerStep, vars, CallWrite, Read, Accept, AcceptFails,
      HandleRead, HandleReadError, Leave, Given

-----------------------------------------------------------------------------
(* Bytes received                                                          *)

LEMMA Shift ==
  ASSUME NEW t \in Nat, NEW p \in Nat, NEW b, t + p = b
  PROVE  /\ \A n \in Nat : t + (p + n) = b + n
         /\ \A k \in Nat : b + (k - p) = t + k
         /\ \A a \in 0 .. p : (t + a) + (p - a) = b
  OBVIOUS

LEMMA BytesStep ==
  TypeOK /\ ReadInOrder /\ PendingInOrder /\ [Next]_vars =>
    ReadInOrder' /\ PendingInOrder'
<1> DEFINE Goal == ReadInOrder /\ PendingInOrder
<1> SUFFICES ASSUME TypeOK, Goal, [Next]_vars PROVE Goal'
  OBVIOUS
<1>0. /\ pendingData \in Seq(Nat) /\ taken \in Seq(Nat) /\ bytes \in Nat
      /\ Len(pendingData) \in Nat /\ Len(taken) \in Nat
      /\ Len(taken) + Len(pendingData) = bytes
  BY DEF TypeOK, ReadInOrder
<1>1. CASE UNCHANGED <<pendingData, bytes, taken>>
  BY <1>1 DEF ReadInOrder, PendingInOrder
<1>2. CASE Read
  <2>1. PICK n \in Chunks :
          /\ taken' = taken \o SubSeq(pendingData, 1, Available(n))
          /\ pendingData' = SubSeq(pendingData, Available(n) + 1, Len(pendingData))
    BY <1>2 DEF Read
  <2> DEFINE a == Available(n)
  <2>2. a \in 0 .. Len(pendingData)
    BY <1>0, ChunksAssumption DEF Available
  <2> HIDE DEF a
  <2>3. /\ SubSeq(pendingData, 1, a) \in Seq(Nat)
        /\ Len(SubSeq(pendingData, 1, a)) = a
        /\ \A k \in 1 .. a : SubSeq(pendingData, 1, a)[k] = pendingData[k]
    <3>1. \A k \in 1 .. a : pendingData[k] \in Nat
      BY <1>0, <2>2
    <3> QED
      BY <2>2, <3>1, SubSeqProperties
  <2>4. /\ Len(pendingData') = Len(pendingData) - a
        /\ \A k \in 1 .. Len(pendingData) - a : pendingData'[k] = pendingData[a + k]
    <3>1. \A k \in a + 1 .. Len(pendingData) : pendingData[k] \in Nat
      BY <1>0, <2>2
    <3>2. pendingData' = SubSeq(pendingData, a + 1, Len(pendingData))
      BY <2>1 DEF a
    <3>3. /\ Len(pendingData') = IF a + 1 <= Len(pendingData)
                                  THEN Len(pendingData) - (a + 1) + 1 ELSE 0
          /\ \A k \in 1 .. Len(pendingData) - (a + 1) + 1 :
               pendingData'[k] = pendingData[(a + 1) + k - 1]
      BY <1>0, <2>2, <3>1, <3>2, SubSeqProperties
    <3> QED
      BY <1>0, <2>2, <3>3
  <2>5. /\ Len(taken') = Len(taken) + a
        /\ \A k \in 1 .. Len(taken) + a :
             taken'[k] = IF k <= Len(taken) THEN taken[k] ELSE pendingData[k - Len(taken)]
    <3>1. taken' = taken \o SubSeq(pendingData, 1, a)
      BY <2>1 DEF a
    <3>2. /\ Len(taken') = Len(taken) + a
          /\ \A k \in 1 .. Len(taken) + a :
               taken'[k] = IF k <= Len(taken) THEN taken[k]
                           ELSE SubSeq(pendingData, 1, a)[k - Len(taken)]
      BY <1>0, <2>3, <3>1, ConcatProperties
    <3>3. ASSUME NEW k \in 1 .. Len(taken) + a, ~(k <= Len(taken))
          PROVE  taken'[k] = pendingData[k - Len(taken)]
      <4>1. k - Len(taken) \in 1 .. a
        BY <1>0, <2>2, <3>3
      <4>2. taken'[k] = SubSeq(pendingData, 1, a)[k - Len(taken)]
        BY <3>2, <3>3
      <4> QED
        BY <2>3, <4>1, <4>2
    <3> QED
      BY <3>2, <3>3
  <2>6. ReadInOrder'
    <3>1. \A k \in 1 .. Len(taken') : taken'[k] = k
      <4> SUFFICES ASSUME NEW k \in 1 .. Len(taken) + a PROVE taken'[k] = k
        BY <2>5
      <4>1. CASE k <= Len(taken)
        BY <1>0, <2>2, <2>5, <4>1 DEF ReadInOrder
      <4>2. CASE ~(k <= Len(taken))
        <5>1. k - Len(taken) \in 1 .. Len(pendingData)
          BY <1>0, <2>2, <4>2
        <5>2. taken'[k] = Len(taken) + (k - Len(taken))
          BY <2>5, <4>2, <5>1 DEF PendingInOrder
        <5> QED
          BY <1>0, <2>2, <5>2
      <4> QED
        BY <4>1, <4>2
    <3>2. bytes' = bytes
      BY <1>2 DEF Read
    <3> QED
      <4>1. (Len(taken) + a) + (Len(pendingData) - a) = bytes
        BY SMTT(30), <1>0, <2>2, Shift
      <4> QED
        BY <2>4, <2>5, <3>1, <3>2, <4>1 DEF ReadInOrder
  <2>7. PendingInOrder'
    BY <1>0, <2>2, <2>4, <2>5 DEF PendingInOrder
  <2> QED
    BY <2>6, <2>7
<1>3. ASSUME NEW s \in Clients, HandleRead(s) PROVE Goal'
  <2>1. PICK n \in Chunks : pendingData' = pendingData \o Arrived(n) /\ bytes' = bytes + n
    BY <1>3 DEF HandleRead
  <2>2. /\ Arrived(n) \in Seq(Nat) /\ Len(Arrived(n)) = n /\ n \in Nat
        /\ \A k \in 1 .. n : Arrived(n)[k] = bytes + k
    BY <1>0, ChunksAssumption DEF Arrived
  <2>3. /\ Len(pendingData') = Len(pendingData) + n
        /\ \A k \in 1 .. Len(pendingData) + n :
             pendingData'[k] = IF k <= Len(pendingData) THEN pendingData[k]
                               ELSE Arrived(n)[k - Len(pendingData)]
    BY <1>0, <2>1, <2>2, ConcatProperties
  <2>4. taken' = taken
    BY <1>3 DEF HandleRead
  <2>5. ReadInOrder'
    <3>1. Len(taken) + (Len(pendingData) + n) = bytes + n
      <4>1. n \in Nat
        BY <2>2
      <4> QED
        BY <1>0, <4>1, Shift
    <3> QED
      BY <2>1, <2>3, <2>4, <3>1 DEF ReadInOrder
  <2>6. PendingInOrder'
    <3> SUFFICES ASSUME NEW k \in 1 .. Len(pendingData) + n
                 PROVE  pendingData'[k] = Len(taken) + k
      BY <2>3, <2>4 DEF PendingInOrder
    <3>1. CASE k <= Len(pendingData)
      <4>1. k \in 1 .. Len(pendingData)
        BY <1>0, <2>2, <3>1
      <4> QED
        BY <2>3, <3>1, <4>1 DEF PendingInOrder
    <3>2. CASE ~(k <= Len(pendingData))
      <4>1. k - Len(pendingData) \in 1 .. n
        BY <1>0, <2>2, <3>2
      <4>2. pendingData'[k] = bytes + (k - Len(pendingData))
        BY <2>2, <2>3, <3>2, <4>1
      <4>3. bytes + (k - Len(pendingData)) = Len(taken) + k
        <5>1. k \in Nat
          BY <1>0, <2>2
        <5> QED
          BY <1>0, <5>1, Shift
      <4> QED
        BY <4>2, <4>3
    <3> QED
      BY <3>1, <3>2
  <2> QED
    BY <2>5, <2>6
<1> QED
  BY <1>1, <1>2, <1>3
  DEF Next, CallerStep, HandlerStep, vars, CallWrite, LockSessions, WriteSession,
      EndWrite, Accept, AcceptFails, HandleAccept, CloseSession, HandleReadError,
      HandleWrite, HandleWriteError, Leave

-----------------------------------------------------------------------------
(* The theorems                                                            *)

\* The inductive invariant.
Served ==
  /\ TypeOK
  /\ Structure
  /\ Writers
  /\ Numbered
  /\ DeliveredInOrder
  /\ ReadInOrder
  /\ PendingInOrder

LEMMA InitServed == Init => Served
<1> SUFFICES ASSUME Init PROVE Served
  OBVIOUS
<1>1. writing \in [Clients -> BOOLEAN] /\ reading \in [Clients -> BOOLEAN]
  BY DEF Init
<1>2. TypeOK
  BY <1>1 DEF Init, TypeOK
<1>3. Structure
  BY ClientsAssumption DEF Init, Structure
<1>4. Writers
  BY DEF Init, Writers
<1>5. Numbered /\ DeliveredInOrder /\ ReadInOrder /\ PendingInOrder
  BY DEF Init, Numbered, DeliveredInOrder, ReadInOrder, PendingInOrder
<1> QED
  BY <1>2, <1>3, <1>4, <1>5 DEF Served

LEMMA ServedInvariant == Spec => []Served
<1>1. Served /\ [Next]_vars => Served'
  BY TypeStep, StructureStep, WritersStep, OrderStep, NumberedStep, BytesStep
  DEF Served
<1> QED
  BY InitServed, <1>1, PTL DEF Spec

\* Every variable keeps its type, and server::write() never looks past the end
\* of the list, which only changes under sessionsLock.
THEOREM ServerTypes == Spec => []TypeOK
<1>1. Served => TypeOK
  BY DEF Served
<1> QED
  BY <1>1, ServedInvariant, PTL

\* However many clients come and go, each gets what was written since it was
\* accepted, in order, with nothing left out before the last.
THEOREM MessagesInOrder == Spec => []DeliveredInOrder
<1>1. Served => DeliveredInOrder
  BY DEF Served
<1> QED
  BY <1>1, ServedInvariant, PTL

\* No message is left in the queue of a session without a write under way.
THEOREM QueuesMove == Spec => []NothingStuck
<1>1. Served => NothingStuck
  BY DEF Served, Writers, Numbered, NothingStuck
<1> QED
  BY <1>1, ServedInvariant, PTL

\* Every byte received is given out once and in order.
THEOREM BytesInOrder == Spec => []ReadInOrder
<1>1. Served => ReadInOrder
  BY DEF Served
<1> QED
  BY <1>1, ServedInvariant, PTL
=============================================================================
