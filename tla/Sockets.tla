------------------------------- MODULE Sockets -------------------------------
(***************************************************************************)
(* Sockets: the table of the network domain (common/net_stack), the        *)
(* SocketFile that stands for a socket in the vfs domain (vfs/socket.rs)   *)
(* and the socket system calls (syscall/socket/mod.rs).  The protocol      *)
(* stack itself, lose_net_stack, is another repository: a connection has a *)
(* port, a state, received segments and a backlog, and does what the code  *)
(* here relies on.  Module Polling adds select and ppoll.                  *)
(*                                                                         *)
(* The tasks are threads that share one descriptor table; dup, fork and    *)
(* the races of descriptor lookup are in module Files.                     *)
(***************************************************************************)
EXTENDS Integers, FiniteSets, SequencesExt

CONSTANTS
  Tasks,
  MaxFd,       \* bound: the highest descriptor
  Ports,       \* ports that programs bind
  MaxSockets,  \* bound: sockets ever made
  MaxFrames,   \* bound: frames that ever arrive
  MaxLength,   \* bound: bytes in one buffer or frame
  PairLimit,   \* 0x50000 in socket_pair.rs
  Worlds       \* the settings to check, see world

Fds == 0..MaxFd
Ids == 1..MaxSockets      \* SocketID, which the code counts from 0
NoSocket == 0
Protocols == {"tcp", "udp"}
SocketCalls == {"tcp", "udp", "pair", "bind", "listen", "accept", "connect", "recvfrom", "sendto",
                "shutdown", "getpeername", "read", "write", "setfl", "close"}
Lengths == 0..MaxLength

ASSUME SocketsAssumption ==
  /\ MaxSockets \in Nat /\ MaxFrames \in Nat /\ MaxLength \in Nat
  /\ PairLimit \in Nat /\ MaxFd \in Nat /\ Ports \subseteq 1..1000
  /\ \A w \in Worlds : w.smp \in BOOLEAN /\ w.badPointers \in BOOLEAN /\ w.budget \in Nat

VARIABLES
  world,    \* never changes: calls, what programs do; smp, there are several CPUs;
            \* badPointers, whether they pass addresses that cannot be written; budget, the
            \* bound on calls that change something
  table,    \* SOCKET_MAP: the ids in it
  made,     \* SOCKET_ID
  socks,    \* Socket or SocketPair of each id: kind, inner, and buf, which is the queue of a pair
  conns,    \* inner of each Socket: see NewConn
  files,    \* the SocketFile behind each descriptor, see NoFile
  readonly, \* the SocketFiles that F_SETFL has left without O_WRONLY and O_RDWR
  nic,      \* frames the device has received
  frames,   \* bound: frames so far
  calls,    \* bound: calls so far
  task,     \* the call of each task
  bytes,    \* history of each id: arrived, bytes received or written; taken, those handed to
            \* programs; torn, whether calls have overlapped, cut or overtaken its bytes
  strays    \* history: ids a failed call left behind; ids of pairs with one end closed

netVars == <<table, made, socks, conns>>
fileVars == <<files, readonly>>
sockVars == <<world, table, made, socks, conns, fileVars, nic, frames, calls, task, bytes, strays>>

Idle == [op |-> "idle"]
Panicked == [op |-> "panicked"]

\* A SocketFile: its id, and which of the two of a pair it is.  It is an object of its own, whose
\* number in VFS_MAP is never used again.
File(i, end) == [id |-> i, end |-> end]
NoFile == File(NoSocket, 0)

\* a connection of lose_net_stack: its port (0: none), whether it has a remote address, where it
\* stands, received segments, connections to accept, and whether accept made it
NewConn(kind) ==
  [kind |-> kind, port |-> 0, remote |-> FALSE, state |-> "idle", q |-> <<>>, backlog |-> 0,
   child |-> FALSE]
NoConn == NewConn("none")
NewSock(kind, inner) == [kind |-> kind, inner |-> inner, buf |-> <<>>]

Init ==
  /\ world \in Worlds
  /\ table = {} /\ made = 0 /\ nic = <<>> /\ frames = 0 /\ calls = 0
  /\ socks = [i \in Ids |-> NewSock("none", i)]
  /\ conns = [i \in Ids |-> NoConn]
  /\ files = [fd \in Fds |-> NoFile] /\ readonly = {}
  /\ task = [t \in Tasks |-> Idle]
  /\ bytes = [i \in Ids |-> [arrived |-> 0, taken |-> <<>>, torn |-> FALSE]]
  /\ strays = [lost |-> {}, halves |-> {}]

-----------------------------------------------------------------------------
(* Scheduling: a task on one CPU leaves the kernel or yields only between *)
(* the steps of a call that are not Inside.                                *)
Inside(t) ==
  task[t].op \in {"read", "write"} \/ (task[t].op \in {"select", "ppoll"} /\ task[t].phase # "yield")
MayRun(t) == world.smp \/ \A u \in Tasks \ {t} : ~Inside(u)

\* t makes the call op now
Calling(t, op) ==
  /\ task[t] = Idle /\ MayRun(t) /\ op \in world.calls /\ calls < world.budget
  /\ calls' = calls + 1

Return(t) == task' = [task EXCEPT ![t] = Idle]
Panic(t) == task' = [task EXCEPT ![t] = Panicked]

\* get_fd and socket_id: the id behind an open descriptor (EBADF without one)
Id(fd) == files[fd].id
Open(fd) == Id(fd) # NoSocket
FreeFd == CHOOSE fd \in Fds : ~Open(fd) /\ \A g \in Fds : g < fd => Open(g)
Room(n) == made + n <= MaxSockets /\ Cardinality({fd \in Fds : ~Open(fd)}) >= n

\* SOCKET_MAP.get and the downcast to Socket; the net domain answers EINVAL without it
IsSocket(i) == i \in table /\ socks[i].kind \in Protocols
Conn(i) == conns[socks[i].inner]

-----------------------------------------------------------------------------
(* The table of the network domain *)

\* mutant: the lowest id that is free
add_socket_file_Lowest(s) ==
  LET i == CHOOSE j \in Ids : j \notin table /\ \A k \in Ids : k < j => k \in table
  IN  /\ table' = table \cup {i} /\ made' = made + 1
      /\ socks' = [socks EXCEPT ![i] = s]

\* SOCKET_ID.fetch_add and SOCKET_MAP.insert
add_socket_file(s) ==
  /\ table' = table \cup {made + 1} /\ made' = made + 1
  /\ socks' = [socks EXCEPT ![made + 1] = s]

NewId == CHOOSE i \in table' : i \notin table

\* close of a connection frees its port
Closed(c) == [c EXCEPT !.state = "closed", !.port = 0, !.backlog = 0]

\* mutant: forgets the reference that the protocol stack keeps
Drop_Last(i) ==
  LET c == socks[i].inner
  IN  IF /\ socks[i].kind \in Protocols /\ conns[c].state # "closed"
         /\ Cardinality({j \in table : socks[j].inner = c}) + (IF conns[c].port # 0 THEN 1 ELSE 0) = 1
      THEN [conns EXCEPT ![c] = Closed(@)] ELSE conns

\* Socket::drop: closes the connection unless another Socket of the table has it.  A connection
\* with a port is in the tables of the protocol stack, which is one reference.
Drop(i) ==
  LET c == socks[i].inner
      strong == Cardinality({j \in table : socks[j].inner = c}) + (IF conns[c].port # 0 THEN 1 ELSE 0)
  IN  IF socks[i].kind \in Protocols /\ conns[c].state # "closed" /\ strong \in {1, 2}
      THEN [conns EXCEPT ![c] = Closed(@)] ELSE conns

\* SOCKET_MAP.remove, which drops the Socket
remove_socket_file(i) ==
  /\ table' = table \ {i}
  /\ conns' = IF i \in table THEN Drop(i) ELSE conns

-----------------------------------------------------------------------------
(* The SocketFile in the vfs domain: VFS_MAP has an Arc of it while a       *)
(* descriptor has it, and so has a call that get_file gave one.             *)
Holds(t) ==
  IF task[t].op \in {"read", "write"} \/ (task[t].op \in {"select", "ppoll"} /\ task[t].phase = "file")
  THEN task[t].file ELSE NoFile

\* get_file finds a file as long as a descriptor has it
InMap(f) == f \in {files[fd] : fd \in Fds} \ {NoFile}

\* SocketFile::drop
drop_file(f) ==
  /\ remove_socket_file(f.id)
  /\ strays' = IF socks[f.id].kind = "pair" THEN [strays EXCEPT !.halves = @ \cup {f.id}] ELSE strays
Kept == UNCHANGED <<table, conns, strays>>

\* t lets go of the Arc it holds, at the end of a call
Release(t) ==
  LET f == Holds(t)
  IN  IF InMap(f) \/ \E u \in Tasks \ {t} : Holds(u) = f THEN Kept ELSE drop_file(f)

\* do_socket and add_fd; SocketFile::new opens it O_RDWR
do_socket(i) == files' = [files EXCEPT ![FreeFd] = File(i, 1)]

\* NetStack::socket
socket(kind) ==
  /\ add_socket_file(NewSock(kind, made + 1))
  /\ conns' = [conns EXCEPT ![made + 1] = NewConn(kind)]

\* socket
sys_socket(t, kind) ==
  /\ Calling(t, kind) /\ Room(1)
  /\ socket(kind)
  /\ do_socket(NewId)
  /\ UNCHANGED <<world, readonly, nic, frames, task, bytes, strays>>

\* NetStack::socket_pair: one object
socket_pair == add_socket_file(NewSock("pair", made + 1)) /\ UNCHANGED conns

\* socketpair: both descriptors get a SocketFile of the same id
sys_socket_pair(t) ==
  /\ Calling(t, "pair") /\ Room(2)
  /\ socket_pair
  /\ LET g == CHOOSE g \in Fds \ {FreeFd} : ~Open(g) /\ \A h \in Fds \ {FreeFd} : h < g => Open(h)
     IN  files' = [files EXCEPT ![FreeFd] = File(NewId, 1), ![g] = File(NewId, 2)]
  /\ UNCHANGED <<world, readonly, nic, frames, task, bytes, strays>>

\* mutant: leaves the entry in the table
close_Keep(t, fd) ==
  /\ Calling(t, "close") /\ Open(fd)
  /\ files' = [files EXCEPT ![fd] = NoFile]
  /\ Kept /\ UNCHANGED <<world, made, socks, readonly, nic, frames, task, bytes>>

\* mutant: removes the socket under a call that still has the file
close_AtOnce(t, fd) ==
  /\ Calling(t, "close") /\ Open(fd)
  /\ files' = [files EXCEPT ![fd] = NoFile]
  /\ drop_file(files[fd])
  /\ UNCHANGED <<world, made, socks, readonly, nic, frames, task, bytes>>

\* close: the entry of VFS_MAP goes at once, the SocketFile with it unless a call on another CPU
\* still has it
close(t, fd) ==
  /\ Calling(t, "close") /\ Open(fd)
  /\ files' = [files EXCEPT ![fd] = NoFile]
  /\ IF \E u \in Tasks : Holds(u) = files[fd] THEN Kept ELSE drop_file(files[fd])
  /\ UNCHANGED <<world, made, socks, readonly, nic, frames, task, bytes>>

-----------------------------------------------------------------------------
(* Addresses and connections *)

\* the connections of the protocol stack that hold a port
InUse(kind, p) == {c \in Ids : conns[c].kind = kind /\ conns[c].port = p /\ ~conns[c].child}
AutoPort(c) == 1000 + c

\* Socket::reuse: a second socket on the connection that has the port
reuse(i, p) ==
  /\ add_socket_file(NewSock(socks[i].kind, CHOOSE c \in InUse(socks[i].kind, p) : TRUE))
  /\ strays' = [strays EXCEPT !.lost = @ \cup {NewId}]
  /\ UNCHANGED conns

\* NetStack::bind; a connection that is bound or in use refuses with EALREADY
bind(i, p) ==
  LET c == socks[i].inner
      taken == InUse(socks[i].kind, p) # {}
  IN  \/ IsSocket(i) /\ taken /\ made < MaxSockets /\ reuse(i, p)
      \/ /\ IsSocket(i) /\ ~taken /\ conns[c].state = "idle" /\ conns[c].port = 0
         /\ conns' = [conns EXCEPT ![c].port = p]
         /\ UNCHANGED <<table, made, socks, strays>>
      \/ /\ ~IsSocket(i) \/ (~taken /\ ~(conns[c].state = "idle" /\ conns[c].port = 0))
         /\ UNCHANGED <<netVars, strays>>

\* bind; sys_bind panics when it is given a new socket
sys_bind(t, fd, p) ==
  /\ Calling(t, "bind")
  /\ bind(Id(fd), p)
  /\ IF made' # made THEN Panic(t) ELSE UNCHANGED task
  /\ UNCHANGED <<world, fileVars, nic, frames, bytes>>

\* what the protocol stack lets listen: a bound stream
CanListen(c) == conns[c].kind = "tcp" /\ conns[c].state \in {"idle", "listen"} /\ conns[c].port # 0

\* NetStack::listen
listen(i) ==
  conns' = IF IsSocket(i) /\ CanListen(socks[i].inner)
           THEN [conns EXCEPT ![socks[i].inner].state = "listen"] ELSE conns

\* listen; expect() panics where the protocol stack refuses
sys_listen(t, fd) ==
  /\ Calling(t, "listen")
  /\ listen(Id(fd))
  /\ IF IsSocket(Id(fd)) /\ ~CanListen(socks[Id(fd)].inner) THEN Panic(t) ELSE UNCHANGED task
  /\ UNCHANGED <<world, table, made, socks, fileVars, nic, frames, bytes, strays>>

\* NetStack::shutdown closes the connection, whatever the direction
shutdown(i) ==
  conns' = IF IsSocket(i) THEN [conns EXCEPT ![socks[i].inner] = Closed(@)] ELSE conns

\* shutdown
sys_shutdown(t, fd) ==
  /\ Calling(t, "shutdown")
  /\ shutdown(Id(fd))
  /\ UNCHANGED <<world, table, made, socks, fileVars, nic, frames, task, bytes, strays>>

\* NetStack::remote_addr unwraps the answer of the protocol stack
remote_addr_panics(i) == IsSocket(i) /\ ~Conn(i).remote

\* getpeername
sys_getpeername(t, fd) ==
  /\ Calling(t, "getpeername")
  /\ IF remote_addr_panics(Id(fd)) THEN Panic(t) ELSE UNCHANGED task
  /\ UNCHANGED <<world, netVars, fileVars, nic, frames, bytes, strays>>

\* setsockopt, getsockopt, getsockname: nothing changes
Query(t) ==
  /\ task[t] = Idle /\ MayRun(t)
  /\ UNCHANGED sockVars

\* a call that keeps the id of its socket through a loop of attempts
Loop(t, op, fd, arg) ==
  /\ Calling(t, op) /\ Open(fd)
  /\ task' = [task EXCEPT ![t] = [op |-> op, sid |-> Id(fd), arg |-> arg,
                                  conn |-> socks[Id(fd)].inner, kind |-> socks[Id(fd)].kind]]
  /\ UNCHANGED <<world, netVars, fileVars, nic, frames, bytes, strays>>

sys_accept(t, fd, addr) == (addr = "bad" => world.badPointers) /\ Loop(t, "accept", fd, addr)
sys_connect(t, fd) == Loop(t, "connect", fd, "peer")
sys_recvfrom(t, fd, len) == Loop(t, "recvfrom", fd, len)

\* one attempt of a loop; EBLOCKING yields and tries again, which changes nothing
Attempt(t, op) == task[t].op = op /\ MayRun(t)

\* EINVAL: the descriptor has been closed since the loop began, or is one end of a pair
LoopFails(t) ==
  /\ \E op \in {"accept", "connect", "recvfrom"} : Attempt(t, op)
  /\ ~IsSocket(task[t].sid)
  /\ Return(t)
  /\ UNCHANGED <<world, netVars, fileVars, nic, frames, calls, bytes, strays>>

\* the connection that accept makes
Child(c) == [NewConn("tcp") EXCEPT !.port = conns[c].port, !.remote = TRUE, !.state = "open",
                                   !.child = TRUE]

\* mutant: leaves the request on the backlog
accept_Again(i) ==
  LET c == socks[i].inner
  IN  /\ conns[c].backlog > 0
      /\ add_socket_file(NewSock("tcp", made + 1))
      /\ conns' = [conns EXCEPT ![made + 1] = Child(c)]

\* mutant: does not wait for a request
accept_Early(i) ==
  LET c == socks[i].inner
  IN  /\ conns[c].state = "listen"
      /\ add_socket_file(NewSock("tcp", made + 1))
      /\ conns' = [conns EXCEPT ![c].backlog = @ - 1, ![made + 1] = Child(c)]

\* NetStack::accept when there is a request
accept(i) ==
  LET c == socks[i].inner
  IN  /\ conns[c].backlog > 0
      /\ add_socket_file(NewSock("tcp", made + 1))
      /\ conns' = [conns EXCEPT ![c].backlog = @ - 1, ![made + 1] = Child(c)]

\* an attempt of sys_accept: the new socket gets a descriptor unless the peer's address cannot be
\* written; errors other than EBLOCKING (ENOSYS) end the loop
Accept(t) ==
  LET i == task[t].sid
  IN  /\ Attempt(t, "accept") /\ IsSocket(i)
      /\ \/ /\ Room(1) /\ accept(i)
            /\ IF task[t].arg = "bad"
               THEN UNCHANGED files /\ strays' = [strays EXCEPT !.lost = @ \cup {NewId}]
               ELSE do_socket(NewId) /\ UNCHANGED strays
         \/ /\ Conn(i).state # "listen"
            /\ UNCHANGED <<netVars, files, strays>>
      /\ Return(t)
      /\ UNCHANGED <<world, readonly, nic, frames, calls, bytes>>

\* an attempt of sys_connect: the first sends the request, later ones look for the answer
Connect(t) ==
  LET i == task[t].sid
      c == socks[i].inner
      port == IF conns[c].port = 0 THEN AutoPort(c) ELSE conns[c].port
  IN  /\ Attempt(t, "connect") /\ IsSocket(i)
      /\ \/ /\ conns[c].kind = "udp" /\ conns[c].state = "idle"
            /\ conns' = [conns EXCEPT ![c].remote = TRUE, ![c].port = port]
            /\ Return(t)
         \/ /\ conns[c].kind = "tcp" /\ conns[c].state = "idle"
            /\ conns' = [conns EXCEPT ![c].state = "syn", ![c].port = port]
            /\ UNCHANGED task
         \/ /\ conns[c].state \in {"open", "closed", "listen"}   \* 0, ECONNREFUSED, ENOSYS
            /\ Return(t) /\ UNCHANGED conns
      /\ UNCHANGED <<world, table, made, socks, fileVars, nic, frames, calls, bytes, strays>>

\* NetStack::sendto binds a socket without a port first
sendto(i) ==
  LET c == socks[i].inner
  IN  conns' = IF IsSocket(i) /\ conns[c].port = 0 /\ conns[c].state = "idle"
               THEN [conns EXCEPT ![c].port = AutoPort(c)] ELSE conns

\* sendto; with nobody to send to the protocol stack refuses and unwrap() panics
sys_sendto(t, fd, addressed) ==
  LET c == socks[Id(fd)].inner
      reaches == IF conns[c].kind = "udp" THEN addressed \/ conns[c].remote
                                          ELSE conns[c].state = "open"
  IN  /\ Calling(t, "sendto")
      /\ sendto(Id(fd))
      /\ IF IsSocket(Id(fd)) /\ ~reaches THEN Panic(t) ELSE UNCHANGED task
      /\ UNCHANGED <<world, table, made, socks, fileVars, nic, frames, bytes, strays>>

-----------------------------------------------------------------------------
(* Data *)

Cut(s, n) == SubSeq(s, 1, IF n < Len(s) THEN n ELSE Len(s))
Beyond(s, n) == SubSeq(s, n + 1, Len(s))

\* a read is between its two halves
Sid(t) == task[t].file.id
Overlapped(i) == \E u \in Tasks : task[u].op = "read" /\ task[u].phase = "store" /\ Sid(u) = i

\* recv_from on the net domain: one segment, cut to the buffer; the loop goes on if that is empty.
\* It passes over what an earlier read has left in buf.
recv_from(t) ==
  LET i == task[t].sid
      c == socks[i].inner
      data == Head(conns[c].q)
      got == Cut(data, task[t].arg)
  IN  /\ Attempt(t, "recvfrom") /\ IsSocket(i) /\ conns[c].q # <<>>
      /\ conns' = [conns EXCEPT ![c].q = Tail(@)]
      /\ bytes' = [bytes EXCEPT ![c].taken = @ \o got,
                                ![c].torn = @ \/ Len(got) < Len(data) \/ socks[i].buf # <<>>
                                              \/ Overlapped(i)]
      /\ IF got = <<>> THEN UNCHANGED task ELSE Return(t)
      /\ UNCHANGED <<world, table, made, socks, fileVars, nic, frames, calls, strays>>

\* vfs_read and vfs_write of one byte or more: get_file, then the SocketFile asks the net domain
Enter(t, op, fd, len) ==
  /\ Calling(t, op) /\ Open(fd) /\ len > 0
  /\ task' = [task EXCEPT ![t] = [op |-> op, phase |-> "enter", file |-> files[fd], len |-> len]]
  /\ UNCHANGED <<world, netVars, fileVars, nic, frames, bytes, strays>>

\* t is in SocketFile::read_at or write_at, about to look for the id in SOCKET_MAP; O_RDONLY is 0,
\* so the flags of a SocketFile always contain it
At(t, op) == task[t].op = op /\ task[t].phase = "enter" /\ MayRun(t)

CanReadPair(t) == socks[Sid(t)].kind = "pair" /\ socks[Sid(t)].buf # <<>>
CanRead(t) == IsSocket(Sid(t)) /\ (socks[Sid(t)].buf # <<>> \/ Conn(Sid(t)).q # <<>>)
\* mutant: no limit
CanWritePair_Unlimited(t) == task[t].file \notin readonly /\ socks[Sid(t)].kind = "pair"

\* SocketFile::write_at: EPERM without O_WRONLY or O_RDWR; SocketPair::write_at: its limit.
\* A write to a Socket goes to the network and changes nothing here.
CanWritePair(t) ==
  task[t].file \notin readonly /\ socks[Sid(t)].kind = "pair" /\ Len(socks[Sid(t)].buf) <= PairLimit

\* the call ends without data: EPERM, EINVAL from SOCKET_MAP, or EBLOCKING for the program
IoEnds(t) ==
  /\ \/ At(t, "read") /\ (Sid(t) \in table => ~CanReadPair(t) /\ ~CanRead(t))
     \/ At(t, "write") /\ (Sid(t) \in table => ~CanWritePair(t))
  /\ Return(t) /\ Release(t)
  /\ UNCHANGED <<world, made, socks, fileVars, nic, frames, calls, bytes>>

\* read of one end of a pair, under the lock of its queue
ReadPair(t) ==
  LET i == Sid(t)
  IN  /\ At(t, "read") /\ i \in table /\ CanReadPair(t)
      /\ socks' = [socks EXCEPT ![i].buf = Beyond(@, task[t].len)]
      /\ bytes' = [bytes EXCEPT ![i].taken = @ \o Cut(socks[i].buf, task[t].len)]
      /\ Return(t) /\ Release(t)
      /\ UNCHANGED <<world, made, fileVars, nic, frames, calls>>

\* read, first half: copy buf or take a segment
ReadTake(t) ==
  LET i == Sid(t)
      c == socks[i].inner
      data == IF socks[i].buf # <<>> THEN socks[i].buf ELSE Head(conns[c].q)
  IN  /\ At(t, "read") /\ CanRead(t)
      /\ conns' = IF socks[i].buf # <<>> THEN conns ELSE [conns EXCEPT ![c].q = Tail(@)]
      /\ task' = [task EXCEPT ![t] = [op |-> "read", phase |-> "store", file |-> @.file, len |-> @.len,
                                      data |-> data]]
      /\ bytes' = [bytes EXCEPT ![c].torn = @ \/ Overlapped(i)]
      /\ UNCHANGED <<world, table, made, socks, fileVars, nic, frames, calls, strays>>

\* mutant: the rest of the segment is dropped
ReadStore_Clear(t) ==
  LET i == Sid(t)
  IN  /\ task[t].op = "read" /\ task[t].phase = "store" /\ MayRun(t)
      /\ socks' = [socks EXCEPT ![i].buf = <<>>]
      /\ bytes' = [bytes EXCEPT ![socks[i].inner].taken = @ \o Cut(task[t].data, task[t].len)]
      /\ Return(t) /\ Release(t)
      /\ UNCHANGED <<world, made, fileVars, nic, frames, calls>>

\* read, second half: what does not fit goes back to buf
ReadStore(t) ==
  LET i == Sid(t)
  IN  /\ task[t].op = "read" /\ task[t].phase = "store" /\ MayRun(t)
      /\ socks' = [socks EXCEPT ![i].buf = Beyond(task[t].data, task[t].len)]
      /\ bytes' = [bytes EXCEPT ![socks[i].inner].taken = @ \o Cut(task[t].data, task[t].len)]
      /\ Return(t) /\ Release(t)
      /\ UNCHANGED <<world, made, fileVars, nic, frames, calls>>

\* write to one end of a pair: all of it
WritePair(t) ==
  LET i == Sid(t)
      n == bytes[i].arrived
  IN  /\ At(t, "write") /\ i \in table /\ CanWritePair(t)
      /\ socks' = [socks EXCEPT ![i].buf = @ \o [k \in 1..task[t].len |-> n + k]]
      /\ bytes' = [bytes EXCEPT ![i].arrived = n + task[t].len]
      /\ Return(t) /\ Release(t)
      /\ UNCHANGED <<world, made, fileVars, nic, frames, calls>>

\* fcntl F_SETFL replaces the open flags, the access mode with them
set_open_flag(t, fd, writable) ==
  /\ Calling(t, "setfl") /\ Open(fd)
  /\ readonly' = IF writable THEN readonly \ {files[fd]} ELSE readonly \cup {files[fd]}
  /\ UNCHANGED <<world, netVars, files, nic, frames, task, bytes, strays>>

-----------------------------------------------------------------------------
(* The network *)

\* the frames another host may send to a connection
Expected(c) ==
  CASE conns[c].state = "listen" -> {"syn"}
    [] conns[c].state = "syn" -> {"synack", "rst"}
    [] conns[c].state = "open" -> {"data", "fin"}
    [] conns[c].state = "idle" /\ conns[c].kind = "udp" /\ conns[c].port # 0 -> {"data"}
    [] OTHER -> {}

Arrive(c, kind, len) ==
  /\ frames < MaxFrames /\ kind \in Expected(c)
  /\ len = 0 \/ kind = "data"
  /\ nic' = Append(nic, [to |-> c, kind |-> kind, len |-> len])
  /\ frames' = frames + 1
  /\ UNCHANGED <<world, netVars, fileVars, calls, task, bytes, strays>>

\* analysis_net_data for one frame: s is the connections and the byte counts
Analyse(s, f) ==
  LET c == f.to
      n == s.bytes[c].arrived
      data == [k \in 1..f.len |-> n + k]
  IN  CASE f.kind = "syn" /\ s.conns[c].state = "listen" -> [s EXCEPT !.conns[c].backlog = @ + 1]
        [] f.kind = "synack" /\ s.conns[c].state = "syn" ->
             [s EXCEPT !.conns[c].state = "open", !.conns[c].remote = TRUE]
        [] f.kind \in {"rst", "fin"} /\ s.conns[c].state \in {"syn", "open"} ->
             [s EXCEPT !.conns[c] = Closed(@)]
        [] f.kind = "data" /\ s.conns[c].port # 0 ->
             [s EXCEPT !.conns[c].q = Append(@, data), !.bytes[c].arrived = n + f.len]
        [] OTHER -> s

\* handle_irq: every frame the device has
handle_irq ==
  LET s == FoldLeft(Analyse, [conns |-> conns, bytes |-> bytes], nic)
  IN  /\ \A t \in Tasks : MayRun(t)
      /\ nic' = <<>> /\ conns' = s.conns /\ bytes' = s.bytes
      /\ UNCHANGED <<world, table, made, socks, fileVars, frames, calls, task, strays>>

-----------------------------------------------------------------------------
Call(t) ==
  \/ Query(t) \/ sys_socket_pair(t)
  \/ \E kind \in Protocols : sys_socket(t, kind)
  \/ \E fd \in Fds : Open(fd) /\
       \/ close(t, fd) \/ sys_listen(t, fd) \/ sys_shutdown(t, fd) \/ sys_getpeername(t, fd)
       \/ sys_connect(t, fd)
       \/ \E p \in Ports : sys_bind(t, fd, p)
       \/ \E addr \in {"good", "bad"} : sys_accept(t, fd, addr)
       \/ \E b \in BOOLEAN : sys_sendto(t, fd, b) \/ set_open_flag(t, fd, b)
       \/ \E len \in Lengths : sys_recvfrom(t, fd, len) \/ Enter(t, "read", fd, len) \/ Enter(t, "write", fd, len)

Step(t) ==
  \/ LoopFails(t) \/ Accept(t) \/ Connect(t) \/ recv_from(t)
  \/ IoEnds(t) \/ ReadPair(t) \/ ReadTake(t) \/ ReadStore(t) \/ WritePair(t)

Network == handle_irq \/ \E c \in Ids, kind \in {"syn", "synack", "rst", "fin", "data"}, len \in Lengths :
                            Arrive(c, kind, len)

-----------------------------------------------------------------------------
(* Properties *)

\* Every variable keeps its type; a connection that nobody made stays blank.
SocketsTypeOK ==
  /\ table \subseteq 1..made /\ made \in 0..MaxSockets
  /\ \A i \in Ids : /\ socks[i].kind \in Protocols \cup {"pair", "none"} /\ socks[i].inner \in 1..i
                    /\ (i > made => conns[i] = NoConn)
                    /\ conns[i].state \in {"idle", "listen", "syn", "open", "closed"}
                    /\ conns[i].backlog \in 0..MaxFrames
  /\ \A fd \in Fds : files[fd].id \in 0..made /\ files[fd].end \in 0..2
  /\ readonly \subseteq [id : 1..made, end : 1..2]
  /\ \A t \in Tasks : task[t].op \in {"idle", "panicked", "read", "write", "accept", "connect", "recvfrom",
                                      "select", "ppoll"}

\* Bytes reach programs once and in order: those handed out, those a read left over and those in
\* received segments are exactly the bytes that arrived.  This fails only where read and recv_from
\* do not share buf: two calls at once, a segment that recv_from cut, or one taken while buf was
\* not empty (socket.rs read_at, recv_from; socket_pair.rs).
StreamIsExact ==
  \A i \in 1..made :
    \/ bytes[i].torn \/ socks[i].inner # i
    \/ Overlapped(i)
    \/ bytes[i].taken \o socks[i].buf \o FlattenSeq(conns[i].q) = [k \in 1..bytes[i].arrived |-> k]

\* A call that loops on a socket id meets the socket it began with or EINVAL, never one made later,
\* though its descriptor may be closed and given away meanwhile (syscall/socket/mod.rs loops).
LoopKeepsItsSocket ==
  \A t \in Tasks :
    task[t].op \in {"accept", "connect", "recvfrom"} /\ task[t].sid \in table
      => socks[task[t].sid].inner = task[t].conn /\ socks[task[t].sid].kind = task[t].kind

\* A socket stays in SOCKET_MAP exactly as long as a descriptor has its file or a call on any CPU
\* still works on it.  Two things break this: an accept or bind that fails after the socket was made
\* leaves it there, and the first file of a pair to go takes it from the other end
\* (SocketFile::drop, socket_pair).
TableIsExact ==
  LET held == ({files[fd].id : fd \in Fds} \cup {Holds(t).id : t \in Tasks}) \ {NoSocket}
  IN  /\ table \subseteq held \cup strays.lost
      /\ held \subseteq table \cup strays.halves

\* A port is in use only while some Socket has its connection: Socket::drop counts references right,
\* so that the port of a closed socket can be bound again.
PortIsHeld ==
  \A c \in Ids : conns[c].port # 0 => \E i \in table : socks[i].inner = c

\* The queue of a pair never exceeds its limit by more than one write, since the limit is looked at
\* before the bytes are appended (socket_pair.rs write_at).
PairIsBounded ==
  \A i \in Ids : socks[i].kind = "pair" => Len(socks[i].buf) <= PairLimit + MaxLength

\* A connection request is accepted once, however many tasks sit in accept: connections accepted and
\* requests waiting never outnumber the frames that arrived.
RequestIsAcceptedOnce ==
  LET waiting == FoldLeft(LAMBDA n, c : n + conns[c].backlog, Len(nic), [c \in Ids |-> c])
  IN  Cardinality({c \in Ids : conns[c].child}) + waiting <= frames

\* Sockets, ports, pairs and requests are each where exactly one owner has them.
SocketsAreExact ==
  TableIsExact /\ PortIsHeld /\ PairIsBounded /\ LoopKeepsItsSocket /\ RequestIsAcceptedOnce
=============================================================================
