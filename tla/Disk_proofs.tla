---------------------------- MODULE Disk_proofs ----------------------------
(***************************************************************************)
(* The disk task reads and writes what it was asked to, over any sequence  *)
(* of requests, for any number of sectors and any count, as long as the    *)
(* interrupt controller does not keep an interrupt that was polled for     *)
(* (LATCH).  The inductive invariant says, for each place the task can be  *)
(* in, how far the controller is with the command and which sectors have   *)
(* been carried over: the two count the same sectors, each on its own, the *)
(* controller no more than fit into the count of its command.              *)
(***************************************************************************)
EXTENDS Disk, TLAPS

Drive(at, op, sect, left) == [at |-> at, op |-> op, sect |-> sect, left |-> left]

NoInterrupt == ~ irq /\ ~ hard
Quiet == drive = Idle /\ NoInterrupt

(* The interrupt is on its way, or its message waits, and not both.        *)
Announced == (irq /\ ~ hard) \/ (~ irq /\ hard)

(* A command that raises an interrupt when its sector is ready.            *)
Pending(op, sect, left) ==
    \/ drive = Drive("busy", op, sect, left) /\ NoInterrupt
    \/ drive = Drive("data", op, sect, left) /\ Announced
Ready(op, sect, left) == drive = Drive("data", op, sect, left) /\ NoInterrupt

count == task.req.count
done == count - task.left
(* The sectors that the controller has still to do.                        *)
owed == Served(count) - done
(* The sector that is on its way, and those that have come.                *)
First == BASE + task.req.pos
Got(k) == [i \in 1 .. k |-> disk[First + i - 1]]
Wrote(k) ==
    [s \in Sector |-> IF s - First \in 0 .. k - 1 THEN task.req.data[s - First + 1] ELSE image[s]]

(* A sector has been written: the controller is ready for the next one.    *)
AfterSector ==
    /\ disk = Wrote(done + 1)
    /\ drive = IF owed = 1 THEN Idle
               ELSE Drive("data", "writing", First + done + 1, owed - 1)

Places == {"receive", "open", "identify", "identified", "partition", "table", "tabled", "close",
           "ioctl", "gather", "other", "read", "ready?", "ready",
           "write", "drq?", "written?", "written", "panic", "reply"}
Opening == {"open", "identify", "identified", "partition", "table", "tabled"}
Reading == {"read", "ready?", "ready"}
Writing == {"write", "drq?", "written?", "written", "panic"}
AtRest == Places \ {"identify", "identified", "table", "tabled",
                    "ready?", "ready", "drq?", "written?", "written"}

TaskType ==
    /\ task \in [at : Places, req : Request \cup {None}, left : 0 .. MaxCount,
                 got : Seq(Value \cup {Table, Garbage})]
    /\ hard => intr_open

(* The request in hand is the one that was asked, and where the task is    *)
(* belongs to its kind.                                                    *)
InHand ==
    IF task.at = "receive" THEN task.req = None
    ELSE /\ asked # None /\ task.req = asked
         /\ task.at \in Opening => asked.kind = "open"
         /\ task.at \in Reading => asked.kind = "read"
         /\ task.at \in Writing => asked.kind = "write"
         /\ task.at \in {"close", "ioctl", "gather", "other"} => asked.kind = task.at

(* The partition is known while the drive is open, and its table is safe.  *)
OpenInv ==
    /\ image[0] = Table
    /\ open_count > 0 => intr_open
    /\ asked.kind = "open" /\ task.at \in {"receive", "open", "identify", "identified"} => open_count < MaxOpen
    /\ asked # None /\ asked.kind # "open" /\ task.at # "reply" => open_count > 0
    /\ open_count > 0 /\ task.at \notin {"partition", "table", "tabled"} => base = BASE

(* How far the controller is.                                              *)
DriveInv ==
    /\ task.at \in AtRest => Quiet
    /\ task.at = "identify" => Pending("identify", 0, 1)
    /\ task.at = "identified" => Ready("identify", 0, 1)
    /\ task.at = "table" => Pending("read", 0, 1)
    /\ task.at = "tabled" => Ready("read", 0, 1)
    /\ task.at = "ready?" => IF owed > 0 THEN Pending("read", First + done, owed) ELSE Quiet
    /\ task.at = "ready" => Ready("read", First + done, owed)
    /\ task.at = "drq?" =>
          IF owed > 0
          THEN /\ NoInterrupt
               /\ \/ drive = Drive("data", "writing", First + done, owed)
                  \/ done = 0 /\ drive = Drive("busy", "write", First, owed)
          ELSE Quiet
    /\ task.at \in {"ready", "written?", "written"} => owed > 0
    /\ task.at = "written?" =>
          \/ /\ drive = [at |-> "taken", op |-> "writing", sect |-> First + done, left |-> owed,
                         data |-> task.req.data[done + 1]]
             /\ NoInterrupt /\ disk = Wrote(done)
          \/ AfterSector /\ Announced
    /\ task.at = "written" => AfterSector /\ NoInterrupt

(* Which sectors have been carried over.                                   *)
DataInv ==
    /\ task.at \notin Writing /\ ~ (task.at = "reply" /\ task.req.kind = "write") => disk = image
    /\ task.at = "write" => disk = image
    /\ task.at = "drq?" => disk = Wrote(done)
    /\ task.at = "reply" /\ task.req.kind = "write" => disk = Wrote(count)
    /\ task.at \in {"read", "write"} => task.left = count
    /\ task.at = "read" => task.got = << >>
    /\ task.at \in {"ready?", "ready", "drq?", "written?", "written"} => task.left \in 1 .. count
    /\ task.at \in {"ready?", "ready"} => task.got = Got(done)
    /\ task.at = "reply" /\ task.req.kind = "read" => task.got = Got(count)

IInv == TypeOK /\ TaskType /\ InHand /\ OpenInv /\ DriveInv /\ DataInv

-----------------------------------------------------------------------------
(* The partition lies within the drive, after the table.                   *)
LEMMA Params ==
    /\ SECTS \in Nat /\ BASE \in Nat \ {0} /\ MaxCount \in Nat \ {0} /\ MaxOpen \in Nat
    /\ BASE + MaxCount <= SECTS /\ 0 \in Sector
    /\ Table \notin Value /\ Garbage \notin Value /\ Table # Garbage
BY DiskAssumption DEF Sector

(* The controller does some of the sectors of a request, and no others.    *)
LEMMA ServesSome == ASSUME NEW n \in Nat \ {0} PROVE Served(n) \in 1 .. n
<1>1. COUNT_REG \in Nat \ {0}
  BY DiskAssumption
<1>2. n % COUNT_REG \in 0 .. COUNT_REG - 1 /\ n % COUNT_REG <= n
  BY <1>1
<1>3. n % COUNT_REG = 0 => COUNT_REG <= n
  BY <1>1, SMTT(30)
<1> QED
  BY <1>1, <1>2, <1>3 DEF Served

(* A request for sectors asks for some that are in the partition.          *)
LEMMA Requests ==
    ASSUME NEW r \in Request
    PROVE  /\ r # None /\ r.pos \in Nat /\ r.count \in 0 .. MaxCount
           /\ r.kind \in {"open", "close", "ioctl", "gather", "other", "read", "write"}
           /\ r.kind \in {"read", "write"} => r.count \in 1 .. MaxCount /\ BASE + r.pos + r.count <= SECTS
           /\ r.kind = "write" => r.data \in [1 .. r.count -> Value]
<1>1. CASE r \in [kind : {"open", "close", "ioctl", "gather", "other"}, pos : {0}, data : {<< >>}, count : {0}]
  BY <1>1, Params DEF None
<1>2. CASE r \in [kind : {"read"}, pos : 0 .. SIZE - 1, data : {<< >>}, count : 1 .. MaxCount]
           /\ r.pos + r.count <= SIZE
  BY <1>2, Params DEF None, SIZE
<1>3. CASE /\ r \in [kind : {"write"}, pos : 0 .. SIZE - 1,
                     data : UNION {[1 .. n -> Value] : n \in 1 .. MaxCount}, count : 1 .. MaxCount]
           /\ r.pos + r.count <= SIZE /\ Len(r.data) = r.count
  <2>1. PICK n \in 1 .. MaxCount : r.data \in [1 .. n -> Value]
    BY <1>3
  <2>2. n = r.count
    BY <1>3, <2>1, Params
  <2> QED
    BY <1>3, <2>1, <2>2, Params DEF None, SIZE
<1> QED
  BY <1>1, <1>2, <1>3 DEF Request

(* The first state: the drive is idle, the task waits.                     *)
LEMMA InitIInv == Init => IInv
<1> SUFFICES ASSUME Init PROVE IInv
  OBVIOUS
<1> USE Params DEF Init
<1>1. disk \in [Sector -> Value \cup {Table}] /\ disk[0] = Table
  OBVIOUS
<1>2. TypeOK
  <2>1. irq \in BOOLEAN /\ hard \in BOOLEAN /\ intr_open \in BOOLEAN
    OBVIOUS
  <2>2. /\ drive.at = "idle" /\ drive.sect = 0 /\ drive.left = 0
        /\ task.req = None /\ task.left = 0
    BY DEF Idle, Waiting
  <2> QED
    BY <1>1, <2>1, <2>2 DEF TypeOK
<1>3. TaskType
  <2>1. << >> \in Seq(Value \cup {Table, Garbage})
    OBVIOUS
  <2> QED
    BY <2>1 DEF TaskType, Waiting, Places
<1>4. InHand /\ OpenInv
  BY <1>1 DEF InHand, OpenInv, Waiting, None
<1>5. DriveInv
  BY DEF DriveInv, Quiet, NoInterrupt, Waiting, AtRest, Places
<1>6. DataInv
  BY DEF DataInv, Waiting, Writing
<1> QED
  BY <1>2, <1>3, <1>4, <1>5, <1>6 DEF IInv


-----------------------------------------------------------------------------
(* The steps of the controller and of its interrupt.                       *)

(* What stays of the invariant when only the controller moves.             *)
LEMMA TaskUndisturbed ==
    ASSUME IInv, TypeOK', DriveInv', hard' => intr_open', UNCHANGED <<open_count, intr_open, base, task, asked, image, disk>>
    PROVE  IInv'
BY DEF IInv, TaskType, InHand, OpenInv, DataInv, Got, Wrote, First, done, count

(* A sector is ready to be read.                                           *)
LEMMA DriveReadKeeps == IInv /\ drive_read => IInv'
<1> SUFFICES ASSUME IInv, drive_read PROVE IInv'
  OBVIOUS
<1> USE DEF IInv, drive_read
<1>1. TypeOK' /\ (hard' => intr_open')
  BY DEF TypeOK, TaskType
<1>2. task.at \in {"identify", "table", "ready?"}
  BY DEF DriveInv, TaskType, AtRest, Places, Quiet, Ready, AfterSector, Drive, Idle
<1>3. ASSUME NEW op, NEW sect, NEW left, Pending(op, sect, left)
      PROVE  drive' = Drive("data", op, sect, left) /\ Announced'
  <2>1. drive = Drive("busy", op, sect, left) /\ ~ hard
    BY <1>3 DEF Pending, Drive, NoInterrupt
  <2>2. Announced'
    BY <2>1 DEF Announced
  <2> QED
    BY <2>1, <2>2 DEF Drive
<1>4. DriveInv'
  <2>1. CASE task.at = "identify"
    BY <1>3, <2>1 DEF DriveInv, Pending, AtRest
  <2>2. CASE task.at = "table"
    BY <1>3, <2>2 DEF DriveInv, Pending, AtRest
  <2>3. CASE task.at = "ready?"
    <3>1. owed > 0 /\ Pending("read", First + done, owed)
      BY <2>3 DEF DriveInv, Quiet, Idle
    <3>2. drive' = Drive("data", "read", First + done, owed) /\ Announced'
      BY <1>3, <3>1
    <3> QED
      BY <2>3, <3>1, <3>2 DEF DriveInv, Pending, AtRest, First, owed, done, count
  <2> QED
    BY <1>2, <2>1, <2>2, <2>3
<1> QED
  BY <1>1, <1>4, TaskUndisturbed

(* The numbers of a transfer that is under way.                            *)
LEMMA Transfer ==
    ASSUME IInv, task.at \in {"ready?", "ready", "drq?", "written?", "written"}
    PROVE  /\ task.req \in Request /\ asked = task.req
           /\ count \in 1 .. MaxCount /\ task.left \in 1 .. count /\ done \in 0 .. count - 1
           /\ owed \in Int /\ owed <= task.left
           /\ task.at \in {"ready", "written?", "written"} => owed \in 1 .. task.left
           /\ First \in Nat /\ BASE <= First /\ First + count <= SECTS
           /\ First + done \in Sector /\ First + done # 0
           /\ task.at \in {"ready?", "ready"} => task.req.kind = "read"
           /\ task.at \in {"drq?", "written?", "written"} =>
                 task.req.kind = "write" /\ task.req.data \in [1 .. count -> Value]
<1>1. task.req = asked /\ task.req \in Request /\ task.left \in 1 .. count
  BY DEF IInv, TypeOK, InHand, DataInv, Places
<1>2. /\ task.at \in {"ready?", "ready"} => task.req.kind = "read"
      /\ task.at \in {"drq?", "written?", "written"} => task.req.kind = "write"
  BY <1>1 DEF IInv, InHand, Reading, Writing
<1>3. task.req.kind \in {"read", "write"}
  BY <1>2
<1>4. /\ count \in 1 .. MaxCount /\ task.req.pos \in Nat /\ BASE + task.req.pos + count <= SECTS
      /\ task.req.kind = "write" => task.req.data \in [1 .. count -> Value]
  BY <1>1, <1>3, Requests DEF count
<1>5. done \in 0 .. count - 1 /\ First \in Nat /\ BASE <= First /\ First + count <= SECTS
  BY <1>1, <1>4, Params DEF done, First
<1>6. First + done \in Sector /\ First + done # 0
  BY <1>4, <1>5, Params DEF Sector
<1>7. owed \in Int /\ owed <= task.left
  BY <1>1, <1>4, ServesSome DEF owed, done
<1>8. task.at \in {"ready", "written?", "written"} => owed \in 1 .. task.left
  BY <1>1, <1>7 DEF IInv, DriveInv
<1> QED
  BY <1>1, <1>2, <1>4, <1>5, <1>6, <1>7, <1>8

(* One more sector is written.                                             *)
LEMMA WroteNext ==
    ASSUME NEW k \in Nat, First \in Nat, image \in [Sector -> Value \cup {Table}]
    PROVE  [Wrote(k) EXCEPT ![First + k] = task.req.data[k + 1]] = Wrote(k + 1)
<1> DEFINE new == [Wrote(k) EXCEPT ![First + k] = task.req.data[k + 1]]
<1>1. DOMAIN new = Sector /\ DOMAIN Wrote(k + 1) = Sector
  BY DEF Wrote
<1>2. ASSUME NEW s \in Sector PROVE new[s] = Wrote(k + 1)[s]
  <2>1. s \in Int
    BY Params DEF Sector
  <2>2. CASE s = First + k
    <3>1. new[s] = task.req.data[k + 1]
      BY <2>2 DEF Wrote
    <3>2. s - First = k /\ s - First \in 0 .. (k + 1) - 1
      BY <2>1, <2>2
    <3> QED
      BY <3>1, <3>2 DEF Wrote
  <2>3. CASE s # First + k
    <3>1. s - First \in 0 .. k - 1 <=> s - First \in 0 .. (k + 1) - 1
      BY <2>1, <2>3
    <3> QED
      BY <2>3, <3>1 DEF Wrote
  <2> QED
    BY <2>2, <2>3
<1>3. new = [s \in Sector |-> new[s]]
  BY DEF Wrote
<1>4. Wrote(k + 1) = [s \in Sector |-> Wrote(k + 1)[s]]
  BY DEF Wrote
<1> QED
  BY <1>2, <1>3, <1>4

(* The controller asks for the first sector of a write.                    *)
LEMMA DriveWriteKeeps == IInv /\ drive_write => IInv'
<1> SUFFICES ASSUME IInv, drive_write PROVE IInv'
  OBVIOUS
<1> USE DEF drive_write
<1>1. TypeOK' /\ (hard' => intr_open')
  BY DEF IInv, TypeOK, TaskType
<1>2. task.at = "drq?"
  BY DEF IInv, DriveInv, TaskType, AtRest, Places, Quiet, Pending, Ready, AfterSector, Drive, Idle
<1>3. NoInterrupt /\ done = 0 /\ owed > 0 /\ drive = Drive("busy", "write", First, owed)
  BY <1>2 DEF IInv, DriveInv, Drive, Quiet, Idle
<1>4. First + done = First
  BY <1>2, <1>3, Transfer
<1>5. drive' = Drive("data", "writing", First + done, owed) /\ NoInterrupt'
  BY <1>3, <1>4 DEF Drive, NoInterrupt
<1>6. DriveInv'
  BY <1>2, <1>3, <1>5 DEF DriveInv, AtRest, First, owed, done, count
<1> QED
  BY <1>1, <1>6, TaskUndisturbed

(* A sector that the controller has taken is on the disk.                  *)
LEMMA DriveWrittenKeeps == IInv /\ drive_written => IInv'
<1> SUFFICES ASSUME IInv, drive_written PROVE IInv'
  OBVIOUS
<1> USE DEF drive_written
<1>1. task.at = "written?"
  BY DEF IInv, DriveInv, TaskType, AtRest, Places, Quiet, Pending, Ready, AfterSector, Drive, Idle
<1>2. /\ drive = [at |-> "taken", op |-> "writing", sect |-> First + done, left |-> owed,
                  data |-> task.req.data[done + 1]]
      /\ NoInterrupt /\ disk = Wrote(done)
  BY <1>1 DEF IInv, DriveInv, AfterSector, Drive, Idle
<1>3. /\ First \in Nat /\ done \in Nat /\ done + 1 \in 1 .. count /\ owed \in 1 .. MaxCount
      /\ First + done \in Sector /\ First + count <= SECTS /\ done + owed <= count
      /\ task.req.data \in [1 .. count -> Value]
  <2>1. /\ count \in 1 .. MaxCount /\ task.left \in 1 .. count /\ done \in 0 .. count - 1
        /\ owed \in 1 .. task.left
        /\ First \in Nat /\ First + done \in Sector /\ First + count <= SECTS
        /\ task.req.data \in [1 .. count -> Value]
    BY <1>1, Transfer
  <2>2. done = count - task.left
    BY DEF done
  <2>3. done \in Nat /\ done + 1 \in 1 .. count /\ owed \in 1 .. MaxCount
    BY <2>1, Params
  <2>4. done + owed <= count
    BY <2>1, <2>2, Params
  <2> QED
    BY <2>1, <2>3, <2>4
<1>4. disk' = Wrote(done + 1)
  BY <1>2, <1>3, WroteNext DEF IInv, TypeOK
<1>5. /\ drive' = IF owed = 1 THEN Idle
                  ELSE Drive("data", "writing", First + done + 1, owed - 1)
      /\ Announced'
  <2>1. Announced'
    BY <1>2 DEF Announced, NoInterrupt
  <2> QED
    BY <1>2, <2>1 DEF Drive
<1>6. disk' \in [Sector -> Value \cup {Table}]
  BY <1>2, <1>3 DEF IInv, TypeOK
<1>7. drive'.at \in {"idle", "data"} /\ drive'.sect \in Sector /\ drive'.left \in 0 .. MaxCount
  <2>1. CASE owed = 1
    <3>1. drive'.at = "idle" /\ drive'.sect = 0 /\ drive'.left = 0
      BY <1>5, <2>1 DEF Idle
    <3> QED
      BY <3>1, Params
  <2>2. CASE owed # 1
    <3>1. drive'.at = "data" /\ drive'.sect = First + done + 1 /\ drive'.left = owed - 1
      BY <1>5, <2>2 DEF Drive
    <3>2. owed - 1 \in 1 .. MaxCount
      BY <1>3, <2>2, Params
    <3>3. count \in Int /\ owed >= 2
      BY <1>2, <1>3, <2>2, Params, Transfer, <1>1
    <3>4. First + done + 1 \in Sector
      BY <1>3, <3>3, Params DEF Sector
    <3> QED
      BY <3>1, <3>2, <3>4
  <2> QED
    BY <2>1, <2>2
<1>8. TypeOK'
  BY <1>6, <1>7 DEF IInv, TypeOK
<1>9. DriveInv'
  <2>1. AfterSector'
    BY <1>4, <1>5 DEF AfterSector, First, owed, done, count, Wrote
  <2>2. owed' = owed /\ owed > 0
    BY <1>3 DEF owed, done, count
  <2> QED
    BY <1>1, <1>5, <2>1, <2>2 DEF DriveInv, AtRest
<1>10. DataInv'
  BY <1>1 DEF IInv, DataInv, Writing, First, done, count
<1> QED
  BY <1>8, <1>9, <1>10 DEF IInv, TaskType, InHand, OpenInv

(* The interrupt becomes a message.                                        *)
LEMMA HandlerKeeps == IInv /\ wini_handler => IInv'
<1> SUFFICES ASSUME IInv, wini_handler PROVE IInv'
  OBVIOUS
<1> USE DEF wini_handler
<1>1. TypeOK' /\ (hard' => intr_open')
  BY DEF IInv, TypeOK
<1>2. task.at \in {"identify", "table", "ready?", "written?"}
  BY DEF IInv, DriveInv, TaskType, AtRest, Places, Quiet, Ready, AfterSector, NoInterrupt
<1>3. Announced => Announced'
  BY DEF Announced
<1>4. ~ NoInterrupt
  BY DEF NoInterrupt
<1>5. ASSUME NEW op, NEW sect, NEW left, Pending(op, sect, left) PROVE Pending(op, sect, left)'
  BY <1>3, <1>4, <1>5 DEF Pending
<1>6. DriveInv'
  <2>1. CASE task.at = "identify"
    BY <1>5, <2>1 DEF IInv, DriveInv, AtRest
  <2>2. CASE task.at = "table"
    BY <1>5, <2>2 DEF IInv, DriveInv, AtRest
  <2>3. CASE task.at = "ready?"
    BY <1>4, <1>5, <2>3 DEF IInv, DriveInv, AtRest, Quiet, First, owed, done, count
  <2>4. CASE task.at = "written?"
    BY <1>3, <1>4, <2>4 DEF IInv, DriveInv, AtRest, AfterSector, First, owed, done, count, Wrote
  <2> QED
    BY <1>2, <2>1, <2>2, <2>3, <2>4
<1> QED
  BY <1>1, <1>6, TaskUndisturbed

(* A request of the file system.                                           *)
LEMMA CallKeeps == ASSUME NEW req \in Request PROVE IInv /\ fs_call(req) => IInv'
<1> SUFFICES ASSUME IInv, fs_call(req) PROVE IInv'
  OBVIOUS
<1> USE DEF fs_call
<1>1. req # None /\ task.at = "receive"
  BY Requests DEF IInv, InHand
<1>2. TypeOK' /\ TaskType'
  BY DEF IInv, TypeOK, TaskType
<1>3. InHand'
  BY <1>1 DEF IInv, InHand
<1>4. OpenInv'
  BY <1>1 DEF IInv, OpenInv, TypeOK
<1>5. DriveInv' /\ DataInv'
  BY <1>1 DEF IInv, DriveInv, DataInv, Quiet, NoInterrupt, AtRest, Places, Writing
<1> QED
  BY <1>2, <1>3, <1>4, <1>5 DEF IInv

-----------------------------------------------------------------------------
(* The steps of the task.                                                  *)

(* What stays when the disk and the request stay.                          *)
LEMMA TypesKept ==
    ASSUME IInv, Reads, UNCHANGED <<open_count, base, intr_open>>, irq' \in BOOLEAN, hard' \in BOOLEAN,
           hard' => intr_open', UNCHANGED drive,
           NEW at \in Places, task' = [task EXCEPT !.at = at]
    PROVE  TypeOK' /\ TaskType'
BY DEF IInv, TypeOK, TaskType, Reads

(* The task takes a request; nothing else is there to take.                *)
LEMMA ReceiveKeeps == IInv /\ wini_receive => IInv'
<1> SUFFICES ASSUME IInv, wini_receive PROVE IInv'
  OBVIOUS
<1> USE DEF wini_receive, At, Reads
<1>1. task.at = "receive" /\ Quiet
  BY DEF IInv, DriveInv, AtRest, Places
<1>2. asked \in Request /\ asked # None
  BY <1>1 DEF Quiet, NoInterrupt, IInv, TypeOK
<1>3. /\ asked.kind \in {"open", "close", "ioctl", "gather", "other", "read", "write"}
      /\ asked.count \in 0 .. MaxCount
      /\ asked.kind \in {"read", "write"} => asked.count \in 1 .. MaxCount
  BY <1>2, Requests
<1>4. task' = [at |-> asked.kind, req |-> asked, left |-> asked.count, got |-> << >>]
  BY <1>2 DEF Waiting
<1>5. TypeOK' /\ TaskType'
  <2>1. << >> \in Seq(Value \cup {Table, Garbage})
    OBVIOUS
  <2> QED
    BY <1>2, <1>3, <1>4, <2>1 DEF IInv, TypeOK, TaskType, Places
<1>6. InHand'
  BY <1>2, <1>3, <1>4 DEF InHand, Opening, Reading, Writing
<1>7. OpenInv'
  BY <1>1, <1>2, <1>3, <1>4 DEF IInv, OpenInv
<1>8. DriveInv'
  BY <1>1, <1>2, <1>3, <1>4 DEF DriveInv, Quiet, NoInterrupt, AtRest, Places
<1>9. DataInv'
  BY <1>1, <1>3, <1>4 DEF IInv, DataInv, Writing, count
<1> QED
  BY <1>5, <1>6, <1>7, <1>8, <1>9 DEF IInv

(* The drive is asked who it is.                                           *)
LEMMA IdentifyKeeps == IInv /\ wini_identify => IInv'
<1> SUFFICES ASSUME IInv, wini_identify PROVE IInv'
  OBVIOUS
<1> USE DEF wini_identify, At, Go, Reads, cmd_out
<1>1. task.at = "open" /\ Quiet
  BY DEF IInv, DriveInv, AtRest, Places
<1>2. drive' = Drive("busy", "identify", 0, 1) /\ NoInterrupt'
  BY <1>1 DEF Quiet, NoInterrupt, Drive
<1>3. task' = [task EXCEPT !.at = "identify"] /\ task'.at = "identify"
  BY DEF IInv, TaskType
<1>4. TypeOK' /\ TaskType'
  BY <1>2, <1>3, Params, SMTT(40) DEF IInv, TypeOK, TaskType, Drive, Places
<1>5. InHand' /\ OpenInv' /\ DataInv'
  BY <1>1, <1>3 DEF IInv, TaskType, InHand, OpenInv, DataInv, Opening, Reading, Writing
<1>6. DriveInv'
  BY <1>2, <1>3 DEF DriveInv, Pending, AtRest
<1> QED
  BY <1>4, <1>5, <1>6 DEF IInv

(* Waiting for the interrupt of a command takes it, whether it comes as a  *)
(* message or is polled for: none is left, and it is this command's.       *)
LEMMA WaitTakes ==
    ASSUME IInv, ~ LATCH, NEW next, wini_interrupt_wait(next),
           Announced \/ (drive.at \in {"busy", "taken"} /\ NoInterrupt)
    PROVE  Announced /\ NoInterrupt' /\ task' = [task EXCEPT !.at = next]
<1>1. hard => intr_open
  BY DEF IInv, TaskType
<1>2. Announced
  BY <1>1 DEF wini_interrupt_wait, NoInterrupt
<1>3. CASE intr_open /\ hard /\ hard' = FALSE /\ UNCHANGED irq
  <2>1. ~ irq /\ ~ hard'
    BY <1>2, <1>3 DEF Announced
  <2> QED
    BY <1>2, <1>3, <2>1 DEF NoInterrupt, wini_interrupt_wait, Go
<1>4. CASE ~ intr_open /\ irq' = (irq /\ LATCH) /\ UNCHANGED hard
  <2>1. ~ irq' /\ ~ hard'
    BY <1>1, <1>4
  <2> QED
    BY <1>2, <1>4, <2>1 DEF NoInterrupt, wini_interrupt_wait, Go
<1> QED
  BY <1>3, <1>4 DEF wini_interrupt_wait

(* The same for a command that reads.                                      *)
LEMMA PendingBecomesReady ==
    ASSUME IInv, ~ LATCH, NEW next, wini_interrupt_wait(next), UNCHANGED drive,
           NEW op, NEW sect, NEW left, Pending(op, sect, left)
    PROVE  Ready(op, sect, left)' /\ task' = [task EXCEPT !.at = next]
<1>1. Announced \/ (drive.at \in {"busy", "taken"} /\ NoInterrupt)
  <2>1. drive = Drive("busy", op, sect, left) => drive.at = "busy"
    BY DEF Drive
  <2> QED
    BY <2>1 DEF Pending
<1>2. Announced /\ NoInterrupt' /\ task' = [task EXCEPT !.at = next]
  BY <1>1, WaitTakes
<1>3. ~ NoInterrupt
  BY <1>2 DEF Announced, NoInterrupt
<1> QED
  BY <1>2, <1>3 DEF Pending, Ready

(* What the steps that only move the task on leave of its data.            *)
LEMMA MovedOn ==
    ASSUME IInv, Reads, UNCHANGED <<drive, open_count, base, intr_open>>,
           irq' \in BOOLEAN, hard' \in BOOLEAN, hard' => intr_open',
           NEW from, NEW at \in Places, task.at = from, task' = [task EXCEPT !.at = at],
           <<from, at>> \in {<<"identify", "identified">>, <<"table", "tabled">>, <<"ready?", "ready">>,
                             <<"written?", "written">>}
    PROVE  /\ TypeOK' /\ TaskType' /\ InHand' /\ OpenInv' /\ DataInv'
           /\ task'.at = at
<1>1. TypeOK' /\ TaskType'
  BY TypesKept
<1>2. task'.at = at /\ task'.req = task.req /\ task'.left = task.left /\ task'.got = task.got
  BY DEF IInv, TaskType
<1>3. InHand'
  BY <1>2 DEF IInv, InHand, Reads, Opening, Reading, Writing
<1>4. OpenInv'
  BY <1>2 DEF IInv, OpenInv, Reads
<1>5. DataInv'
  BY <1>2 DEF IInv, DataInv, Reads, Writing, Got, First, done, count
<1> QED
  BY <1>1, <1>2, <1>3, <1>4, <1>5

(* An interrupt that was waited for leaves bits.                           *)
LEMMA WaitTypes ==
    ASSUME IInv, NEW next, wini_interrupt_wait(next), UNCHANGED intr_open
    PROVE  irq' \in BOOLEAN /\ hard' \in BOOLEAN /\ (hard' => intr_open')
<1>1. irq \in BOOLEAN /\ hard \in BOOLEAN /\ (hard => intr_open)
  BY DEF IInv, TypeOK, TaskType
<1>2. CASE intr_open /\ hard' = FALSE /\ UNCHANGED irq
  BY <1>1, <1>2
<1>3. CASE ~ intr_open /\ irq' = (irq /\ LATCH) /\ UNCHANGED hard
  <2>1. irq' \in BOOLEAN
    BY <1>3
  <2> QED
    BY <1>1, <1>3, <2>1
<1> QED
  BY <1>2, <1>3 DEF wini_interrupt_wait

(* The drive has said who it is.                                           *)
LEMMA IdentifyWaitKeeps == ~ LATCH /\ IInv /\ identify_wait => IInv'
<1> SUFFICES ASSUME ~ LATCH, IInv, identify_wait PROVE IInv'
  OBVIOUS
<1> USE DEF identify_wait, At
<1>1. Pending("identify", 0, 1)
  BY DEF IInv, DriveInv
<1>2. Ready("identify", 0, 1)' /\ task' = [task EXCEPT !.at = "identified"]
  BY <1>1, PendingBecomesReady
<1>3. TypeOK' /\ TaskType' /\ InHand' /\ OpenInv' /\ DataInv' /\ task'.at = "identified"
  BY <1>2, MovedOn, WaitTypes DEF Places
<1>4. DriveInv'
  BY <1>2, <1>3 DEF DriveInv, AtRest
<1> QED
  BY <1>3, <1>4 DEF IInv

(* The partition table is at the port.                                     *)
LEMMA TableWaitKeeps == ~ LATCH /\ IInv /\ table_wait => IInv'
<1> SUFFICES ASSUME ~ LATCH, IInv, table_wait PROVE IInv'
  OBVIOUS
<1> USE DEF table_wait, At
<1>1. Pending("read", 0, 1)
  BY DEF IInv, DriveInv
<1>2. Ready("read", 0, 1)' /\ task' = [task EXCEPT !.at = "tabled"]
  BY <1>1, PendingBecomesReady
<1>3. TypeOK' /\ TaskType' /\ InHand' /\ OpenInv' /\ DataInv' /\ task'.at = "tabled"
  BY <1>2, MovedOn, WaitTypes DEF Places
<1>4. DriveInv'
  BY <1>2, <1>3 DEF DriveInv, AtRest
<1> QED
  BY <1>3, <1>4 DEF IInv

(* A sector of a read is at the port.                                      *)
LEMMA ReadWaitKeeps == ~ LATCH /\ IInv /\ read_wait => IInv'
<1> SUFFICES ASSUME ~ LATCH, IInv, read_wait PROVE IInv'
  OBVIOUS
<1> USE DEF read_wait, At
<1>1. owed > 0 /\ Pending("read", First + done, owed)
  <2>1. intr_open
    BY Transfer, Requests DEF IInv, OpenInv
  <2>2. ~ Quiet
    BY <2>1 DEF wini_interrupt_wait, Quiet, NoInterrupt
  <2> QED
    BY <2>2 DEF IInv, DriveInv
<1>2. \A sect, left : Pending("read", sect, left) =>
          Ready("read", sect, left)' /\ task' = [task EXCEPT !.at = "ready"]
  BY PendingBecomesReady
<1>3. /\ drive' = Drive("data", "read", First + done, owed) /\ NoInterrupt'
      /\ task' = [task EXCEPT !.at = "ready"]
  BY <1>1, <1>2 DEF Ready, Drive
<1>4. TypeOK' /\ TaskType' /\ InHand' /\ OpenInv' /\ DataInv' /\ task'.at = "ready"
  BY <1>3, MovedOn, WaitTypes DEF Places
<1>5. First' = First /\ done' = done /\ owed' = owed
  BY <1>3 DEF IInv, TaskType, First, owed, done, count
<1>6. DriveInv'
  BY <1>1, <1>3, <1>4, <1>5 DEF DriveInv, Ready, AtRest, Drive
<1> QED
  BY <1>4, <1>6 DEF IInv

(* The controller has written the sector.                                  *)
LEMMA WriteWaitKeeps == ~ LATCH /\ IInv /\ write_wait => IInv'
<1> SUFFICES ASSUME ~ LATCH, IInv, write_wait PROVE IInv'
  OBVIOUS
<1> USE DEF write_wait, At
<1>1. Announced \/ (drive.at \in {"busy", "taken"} /\ NoInterrupt)
  <2>1. drive = [at |-> "taken", op |-> "writing", sect |-> First + done, left |-> owed,
                 data |-> task.req.data[done + 1]] => drive.at = "taken"
    OBVIOUS
  <2> QED
    BY <2>1 DEF IInv, DriveInv
<1>2. Announced /\ NoInterrupt' /\ task' = [task EXCEPT !.at = "written"]
  BY <1>1, WaitTakes
<1>3. AfterSector
  BY <1>2 DEF IInv, DriveInv, Announced, NoInterrupt
<1>4. TypeOK' /\ TaskType' /\ InHand' /\ OpenInv' /\ DataInv' /\ task'.at = "written"
  BY <1>2, MovedOn, WaitTypes DEF Places
<1>5. AfterSector' /\ owed' > 0
  <2>1. task'.req = task.req /\ task'.left = task.left
    BY <1>2 DEF IInv, TaskType
  <2>2. owed' = owed /\ owed > 0
    BY <2>1 DEF IInv, DriveInv, owed, done, count
  <2> QED
    BY <1>3, <2>1, <2>2 DEF AfterSector, First, done, count, Wrote, Reads
<1>6. DriveInv'
  BY <1>2, <1>4, <1>5 DEF DriveInv, AtRest
<1> QED
  BY <1>4, <1>6 DEF IInv

(* The drive is open, and at the first time the partition comes next.      *)
LEMMA OpenKeeps == IInv /\ wini_do_open => IInv'
<1> SUFFICES ASSUME IInv, wini_do_open PROVE IInv'
  OBVIOUS
<1> USE DEF wini_do_open, At, Go, Reads
<1>1. drive = Drive("data", "identify", 0, 1) /\ NoInterrupt
  BY DEF IInv, DriveInv, Ready
<1>2. Quiet'
  BY <1>1 DEF port_read, Drive, Quiet, NoInterrupt
<1>3. task' = [task EXCEPT !.at = IF open_count = 0 THEN "partition" ELSE "reply"]
  OBVIOUS
<1>4. /\ task'.at = (IF open_count = 0 THEN "partition" ELSE "reply")
      /\ task'.req = task.req /\ task'.left = task.left
  BY <1>3 DEF IInv, TaskType
<1>5. task.req = asked /\ asked.kind = "open" /\ open_count < MaxOpen /\ open_count \in Nat
  BY Params DEF IInv, TypeOK, InHand, OpenInv, Opening
<1>6. TypeOK'
  BY <1>2, <1>4, <1>5, Params DEF IInv, TypeOK, Quiet, Idle
<1>7. TaskType'
  BY <1>2, <1>3 DEF IInv, TaskType, Places, Quiet, NoInterrupt
<1>8. InHand'
  BY <1>4, <1>5 DEF IInv, InHand, Opening, Reading, Writing
<1>9. OpenInv'
  BY <1>4, <1>5 DEF IInv, OpenInv
<1>10. DriveInv'
  BY <1>2, <1>4 DEF DriveInv, AtRest
<1>11. DataInv'
  BY <1>4, <1>5 DEF IInv, DataInv, Writing
<1> QED
  BY <1>6, <1>7, <1>8, <1>9, <1>10, <1>11 DEF IInv

(* The table is asked for.                                                 *)
LEMMA GetTableKeeps == IInv /\ get_part_table => IInv'
<1> SUFFICES ASSUME IInv, get_part_table PROVE IInv'
  OBVIOUS
<1> USE DEF get_part_table, At, Go, Reads, cmd_out
<1>1. task.at = "partition" /\ Quiet
  BY DEF IInv, DriveInv, AtRest, Places
<1>2. drive' = Drive("busy", "read", 0, 1) /\ NoInterrupt'
  BY <1>1 DEF Quiet, NoInterrupt, Drive
<1>3. task' = [task EXCEPT !.at = "table"] /\ task'.at = "table"
  BY DEF IInv, TaskType
<1>4. TypeOK' /\ TaskType'
  <2>1. drive'.at = "busy" /\ drive'.sect = 0 /\ drive'.left = 1
    BY <1>2 DEF Drive
  <2>2. drive'.sect \in Sector /\ drive'.left \in 0 .. MaxCount
    BY <2>1, Params
  <2> QED
    BY <1>3, <2>1, <2>2 DEF IInv, TypeOK, TaskType, Places
<1>5. InHand' /\ OpenInv' /\ DataInv'
  BY <1>1, <1>3 DEF IInv, TaskType, InHand, OpenInv, DataInv, Opening, Reading, Writing
<1>6. DriveInv'
  BY <1>2, <1>3 DEF DriveInv, Pending, AtRest
<1> QED
  BY <1>4, <1>5, <1>6 DEF IInv

(* What was read is the table, and the partition is where it says.         *)
LEMMA PartitionKeeps == IInv /\ partition => IInv'
<1> SUFFICES ASSUME IInv, partition PROVE IInv'
  OBVIOUS
<1> USE DEF partition, At, Go, Reads
<1>1. drive = Drive("data", "read", 0, 1) /\ NoInterrupt
  BY DEF IInv, DriveInv, Ready
<1>2. Quiet'
  BY <1>1 DEF port_read, Drive, Quiet, NoInterrupt
<1>3. disk[0] = Table
  BY DEF IInv, OpenInv, DataInv, Writing
<1>4. base' = BASE
  BY <1>1, <1>3 DEF Port, Drive
<1>5. task' = [task EXCEPT !.at = "reply"]
  OBVIOUS
<1>6. task'.at = "reply" /\ task'.req = task.req /\ task'.left = task.left
  BY <1>5 DEF IInv, TaskType
<1>7. task.req = asked /\ asked.kind = "open"
  BY DEF IInv, InHand, Opening
<1>8. TypeOK'
  BY <1>2, <1>4, <1>6, Params DEF IInv, TypeOK, Quiet, Idle
<1>9. TaskType'
  BY <1>2, <1>5 DEF IInv, TaskType, Places, Quiet, NoInterrupt
<1>10. InHand' /\ OpenInv'
  BY <1>4, <1>6, <1>7 DEF IInv, InHand, OpenInv, Opening, Reading, Writing
<1>11. DriveInv'
  BY <1>2, <1>6 DEF DriveInv, AtRest
<1>12. DataInv'
  BY <1>6, <1>7 DEF IInv, DataInv, Writing
<1> QED
  BY <1>8, <1>9, <1>10, <1>11, <1>12 DEF IInv

(* Requests that move no sectors.                                          *)
LEMMA OtherKeeps == IInv /\ (wini_do_close \/ wini_do_other) => IInv'
<1> SUFFICES ASSUME IInv, wini_do_close \/ wini_do_other PROVE IInv'
  OBVIOUS
<1> USE DEF wini_do_close, wini_do_other, At, Go, Reads
<1>1. task.at \in {"close", "ioctl", "gather", "other"}
  OBVIOUS
<1>2. Quiet /\ task.req = asked /\ asked # None /\ asked.kind = task.at
  BY <1>1 DEF IInv, DriveInv, InHand, AtRest, Places
<1>3. task' = [task EXCEPT !.at = "reply"]
  OBVIOUS
<1>4. task'.at = "reply" /\ task'.req = task.req /\ task'.left = task.left
  BY <1>3 DEF IInv, TaskType
<1>5. open_count > 0 /\ open_count \in 0 .. MaxOpen
  BY <1>1, <1>2 DEF IInv, OpenInv, TypeOK
<1>6. open_count' \in 0 .. MaxOpen /\ base = BASE
  <2>1. open_count' \in {open_count, open_count - 1}
    BY <1>1
  <2>2. open_count' \in 0 .. MaxOpen
    BY <1>5, <2>1, Params
  <2>3. base = BASE
    BY <1>1, <1>5 DEF IInv, OpenInv
  <2> QED
    BY <2>2, <2>3
<1>7. TypeOK' /\ TaskType'
  BY <1>3, <1>4, <1>6 DEF IInv, TypeOK, TaskType, Places
<1>8. InHand' /\ OpenInv'
  BY <1>2, <1>4, <1>6 DEF IInv, InHand, OpenInv, Opening, Reading, Writing
<1>9. DriveInv'
  BY <1>2, <1>4 DEF DriveInv, Quiet, NoInterrupt, AtRest
<1>10. DataInv'
  BY <1>1, <1>2, <1>4 DEF IInv, DataInv, Writing
<1> QED
  BY <1>7, <1>8, <1>9, <1>10 DEF IInv

-----------------------------------------------------------------------------
(* The transfers.                                                          *)

(* The command of a transfer: nothing has been carried over yet.           *)
LEMMA ReadWriteKeeps == IInv /\ wini_do_readwrite => IInv'
<1> SUFFICES ASSUME IInv, wini_do_readwrite PROVE IInv'
  OBVIOUS
<1> DEFINE at == IF task.at = "read" THEN "ready?" ELSE "drq?"
<1> USE DEF wini_do_readwrite, Go, Reads, cmd_out
<1>1. task.at \in {"read", "write"} /\ Quiet
  BY DEF IInv, DriveInv, AtRest, Places
<1>2. task.req = asked /\ asked \in Request /\ asked.kind = task.at
  BY <1>1 DEF IInv, TypeOK, InHand, Reading, Writing
<1>3. /\ count \in 1 .. MaxCount /\ task.req.pos \in Nat /\ BASE + task.req.pos + count <= SECTS
  BY <1>1, <1>2, Requests DEF count
<1>4. /\ base = BASE /\ task.left = count /\ disk = image /\ (task.at = "read" => task.got = << >>)
      /\ open_count > 0
  <2>1. open_count > 0 /\ base = BASE
    BY <1>1, <1>2, Requests DEF IInv, OpenInv
  <2>2. task.left = count /\ (task.at = "read" => task.got = << >>)
    BY <1>1 DEF IInv, DataInv
  <2>3. disk = image
    BY <1>1 DEF IInv, DataInv, Writing
  <2> QED
    BY <2>1, <2>2, <2>3
<1>5. /\ First \in Nat /\ First \in Sector /\ done = 0 /\ First + done = First /\ First = base + task.req.pos
  BY <1>3, <1>4, Params, SMTT(40) DEF First, done, Sector
<1>6. task' = [task EXCEPT !.at = at]
  OBVIOUS
<1>7. task'.at = at /\ task'.req = task.req /\ task'.left = task.left /\ task'.got = task.got
  BY <1>6 DEF IInv, TaskType
<1>8. First' = First /\ done' = done /\ count' = count /\ owed' = owed
  BY <1>7 DEF First, owed, done, count
<1>9. drive' = Drive("busy", task.at, First + done, owed) /\ NoInterrupt' /\ owed \in 1 .. count
  <2>1. Served(count) \in 1 .. count
    BY <1>3, ServesSome
  <2>2. owed = Served(count)
    BY <1>5, <2>1 DEF owed
  <2>3. drive' = Drive("busy", task.at, First + done, Served(count)) /\ NoInterrupt'
    BY <1>1, <1>4, <1>5 DEF Quiet, NoInterrupt, Drive, count
  <2> QED
    BY <2>1, <2>2, <2>3
<1>10. TypeOK'
  <2>1. drive'.at = "busy" /\ drive'.sect = First /\ drive'.left = owed
    BY <1>4, <1>5, <1>9 DEF Drive
  <2>2. drive'.sect \in Sector /\ drive'.left \in 0 .. MaxCount
    <3>1. owed \in 0 .. MaxCount
      BY <1>3, <1>9, Params
    <3> QED
      BY <1>5, <2>1, <3>1
  <2> QED
    BY <1>7, <2>1, <2>2 DEF IInv, TypeOK
<1>11. TaskType'
  BY <1>6 DEF IInv, TaskType, Places
<1>12. InHand' /\ OpenInv'
  BY <1>1, <1>2, <1>4, <1>7 DEF IInv, InHand, OpenInv, Opening, Reading, Writing
<1>13. DriveInv'
  BY <1>1, <1>5, <1>7, <1>8, <1>9 DEF DriveInv, AtRest, Pending
<1>14. DataInv'
  <2>1. Got(0) = << >>
    BY DEF Got
  <2>2. Wrote(0) = image
    <3>1. image \in [Sector -> Value \cup {Table}]
      BY DEF IInv, TypeOK
    <3>2. \A s \in Sector : ~ (s - First \in 0 .. 0 - 1)
      BY <1>5 DEF Sector
    <3> QED
      BY <3>1, <3>2 DEF Wrote
  <2>3. disk' = image' /\ Got(0)' = << >> /\ Wrote(0)' = image'
    BY <1>4, <1>7, <1>8, <2>1, <2>2 DEF Got, Wrote
  <2>4. task'.left \in 1 .. count'
    BY <1>3, <1>4, <1>7, <1>8
  <2>5. CASE task.at = "read"
    BY <1>2, <1>4, <1>5, <1>7, <1>8, <2>3, <2>4, <2>5 DEF DataInv, Writing, Got
  <2>6. CASE task.at = "write"
    BY <1>2, <1>4, <1>5, <1>7, <1>8, <2>3, <2>4, <2>6 DEF DataInv, Writing, Wrote
  <2> QED
    BY <1>1, <2>5, <2>6
<1> QED
  BY <1>10, <1>11, <1>12, <1>13, <1>14 DEF IInv

(* One more sector is read.                                                *)
LEMMA GotNext ==
    ASSUME NEW k \in Nat, First \in Nat, First + k \in Sector, disk \in [Sector -> Value \cup {Table}]
    PROVE  Append(Got(k), disk[First + k]) = Got(k + 1) /\ Got(k) \in Seq(Value \cup {Table})
<1>1. \A i \in 1 .. k : First + i - 1 \in Sector
  BY Params DEF Sector
<1>2. Got(k) \in [1 .. k -> Value \cup {Table}]
  BY <1>1 DEF Got
<1>3. Got(k) \in Seq(Value \cup {Table}) /\ Len(Got(k)) = k
  BY <1>2
<1>4. DOMAIN Got(k + 1) = 1 .. k + 1 /\ DOMAIN Append(Got(k), disk[First + k]) = 1 .. k + 1
  BY <1>3 DEF Got
<1>5. ASSUME NEW i \in 1 .. k + 1 PROVE Append(Got(k), disk[First + k])[i] = Got(k + 1)[i]
  <2>1. Got(k + 1)[i] = disk[First + i - 1]
    BY DEF Got
  <2>2. CASE i = k + 1
    <3>1. Append(Got(k), disk[First + k])[i] = disk[First + k]
      BY <1>3, <2>2
    <3>2. First + i - 1 = First + k
      BY <2>2
    <3> QED
      BY <2>1, <3>1, <3>2
  <2>3. CASE i \in 1 .. k
    <3>1. Append(Got(k), disk[First + k])[i] = Got(k)[i]
      BY <1>3, <2>3
    <3>2. Got(k)[i] = disk[First + i - 1]
      BY <2>3 DEF Got
    <3> QED
      BY <2>1, <3>1, <3>2
  <2>4. i = k + 1 \/ i \in 1 .. k
    OBVIOUS
  <2> QED
    BY <2>2, <2>3, <2>4
<1>6. Append(Got(k), disk[First + k]) \in Seq(Value \cup {Table}) /\ Got(k + 1) = [i \in 1 .. k + 1 |-> Got(k + 1)[i]]
  <2>1. disk[First + k] \in Value \cup {Table}
    OBVIOUS
  <2> QED
    BY <1>3, <2>1 DEF Got
<1>7. Len(Append(Got(k), disk[First + k])) = k + 1
  BY <1>3
<1>8. Append(Got(k), disk[First + k]) = [i \in 1 .. k + 1 |-> Append(Got(k), disk[First + k])[i]]
  BY <1>6, <1>7
<1> QED
  BY <1>3, <1>5, <1>6, <1>8

(* The task takes a sector from the port.                                  *)
LEMMA ReadSectorKeeps == IInv /\ read_sector => IInv'
<1> SUFFICES ASSUME IInv, read_sector PROVE IInv'
  OBVIOUS
<1> USE DEF read_sector, At, Reads
<1>1. /\ drive = Drive("data", "read", First + done, owed) /\ NoInterrupt
      /\ task.got = Got(done)
  BY DEF IInv, DriveInv, DataInv, Ready
<1>2. /\ task.req \in Request /\ asked = task.req /\ asked # None /\ task.req.kind = "read"
      /\ count \in 1 .. MaxCount /\ task.left \in 1 .. count /\ done \in 0 .. count - 1 /\ owed \in 1 .. task.left
      /\ First \in Nat /\ First + done \in Sector /\ First + count <= SECTS
  BY Transfer, Requests
<1>3. done = count - task.left
  BY DEF done
<1>4. /\ disk' = disk /\ disk \in [Sector -> Value \cup {Table}] /\ disk = image
  BY <1>2 DEF IInv, TypeOK, DataInv, Writing
<1>5. Port = disk[First + done]
  BY <1>1 DEF Port, Drive
<1>6. Append(task.got, Port) = Got(done + 1)
      /\ Append(task.got, Port) \in Seq(Value \cup {Table, Garbage})
  <2>1. task.got \in Seq(Value \cup {Table, Garbage}) /\ Port \in Value \cup {Table, Garbage}
    BY <1>2, <1>4, <1>5 DEF IInv, TaskType
  <2> QED
    BY <1>1, <1>2, <1>4, <1>5, <2>1, GotNext
<1> DEFINE at == IF task.left = 1 THEN "reply" ELSE "ready?"
<1>7. task' = [at |-> at, req |-> task.req, left |-> task.left - 1, got |-> Got(done + 1)]
  <2>1. task = [at |-> task.at, req |-> task.req, left |-> task.left, got |-> task.got]
    BY DEF IInv, TaskType
  <2>2. task' = [task EXCEPT !.at = at, !.left = task.left - 1, !.got = Append(task.got, Port)]
    OBVIOUS
  <2> QED
    BY <1>6, <2>1, <2>2
<1>8. task'.at = at /\ task'.req = task.req /\ task'.left = task.left - 1 /\ task'.got = Got(done + 1)
  BY ONLY <1>7
<1>9. /\ First' = First /\ count' = count /\ done' = done + 1 /\ First + done + 1 = First + (done + 1)
      /\ owed' = owed - 1
      /\ \A k \in Nat : Got(k)' = Got(k)
  <2>1. First' = First /\ count' = count
    BY <1>8 DEF First, count
  <2>2. done' = done + 1 /\ First + done + 1 = First + (done + 1)
    BY <1>2, <1>8, <2>1 DEF done
  <2>3. owed' = owed - 1
    <3>1. Served(count) \in Int
      BY <1>2, ServesSome
    <3> QED
      BY <1>2, <2>1, <2>2, <3>1 DEF owed
  <2> QED
    BY <1>4, <2>1, <2>2, <2>3 DEF Got
<1>10. /\ drive' = IF owed = 1 THEN Idle ELSE Drive("busy", "read", First + done + 1, owed - 1)
       /\ NoInterrupt'
  <2>1. NoInterrupt'
    BY <1>1 DEF NoInterrupt
  <2>2. drive.at = "data" /\ drive.left = owed /\ drive.sect = First + done
    BY <1>1 DEF Drive
  <2>3. CASE owed = 1
    BY <2>1, <2>2, <2>3 DEF port_read
  <2>4. CASE owed # 1
    <3>1. drive' = [drive EXCEPT !.at = "busy", !.sect = drive.sect + 1, !.left = drive.left - 1]
      BY <2>2, <2>4 DEF port_read
    <3>2. drive = [at |-> "data", op |-> "read", sect |-> First + done, left |-> owed]
      BY <1>1 DEF Drive
    <3>3. drive' = [at |-> "busy", op |-> "read", sect |-> First + done + 1, left |-> owed - 1]
      BY ONLY <3>1, <3>2
    <3> QED
      BY <2>1, <2>4, <3>3 DEF Drive
  <2> QED
    BY <2>3, <2>4
<1>11. TypeOK'
  <2>1. CASE owed = 1
    <3>1. task'.req = task.req /\ task'.left \in 0 .. MaxCount
      <4>1. task.left - 1 \in 0 .. MaxCount
        BY <1>2, Params
      <4> QED
        BY <1>8, <4>1
    <3>2. drive'.at = "idle" /\ drive'.sect = 0 /\ drive'.left = 0
      BY <1>10, <2>1 DEF Idle
    <3>3. drive'.sect \in Sector /\ drive'.left \in 0 .. MaxCount
      BY <3>2, Params
    <3> QED
      BY <3>1, <3>2, <3>3 DEF IInv, TypeOK
  <2>2. CASE owed # 1
    <3>1. First + done + 1 \in Sector /\ owed - 1 \in 0 .. MaxCount /\ task.left - 1 \in 0 .. MaxCount
      BY <1>2, <1>3, <2>2, Params DEF Sector
    <3>2. drive'.at = "busy" /\ drive'.sect = First + done + 1 /\ drive'.left = owed - 1
      BY <1>10, <2>2 DEF Drive
    <3> QED
      BY <1>8, <3>1, <3>2 DEF IInv, TypeOK
  <2> QED
    BY <2>1, <2>2
<1>12. TaskType'
  <2>1. task.left - 1 \in 0 .. MaxCount
    BY <1>2, Params
  <2>2. hard' => intr_open'
    BY DEF IInv, TaskType
  <2> QED
    BY <1>2, <1>6, <1>7, <1>1, <2>1, <2>2 DEF TaskType, Places
<1>13. InHand' /\ OpenInv'
  BY <1>2, <1>8 DEF IInv, InHand, OpenInv, Opening, Reading, Writing
<1>14. CASE task.left = 1
  <2>1. done + 1 = count /\ done + 1 \in Nat
    BY <1>2, <1>3, <1>14
  <2>2. DriveInv'
    BY <1>2, <1>8, <1>10, <1>14 DEF DriveInv, AtRest, Places, Quiet
  <2>3. DataInv'
    BY <1>2, <1>4, <1>8, <1>9, <1>14, <2>1 DEF DataInv, Writing
  <2> QED
    BY <1>11, <1>12, <1>13, <2>2, <2>3 DEF IInv
<1>15. CASE task.left # 1
  <2>1. task.left - 1 \in 1 .. count /\ done + 1 \in Nat
    BY <1>2, <1>15
  <2>2. DriveInv'
    BY <1>2, <1>8, <1>9, <1>10, <1>15 DEF DriveInv, AtRest, Pending, Quiet
  <2>3. DataInv'
    BY <1>2, <1>4, <1>8, <1>9, <1>15, <2>1, SMTT(40) DEF DataInv, Writing
  <2> QED
    BY <1>11, <1>12, <1>13, <2>2, <2>3 DEF IInv
<1> QED
  BY <1>14, <1>15

(* The task gives a sector to the port.                                    *)
LEMMA WriteSectorKeeps == IInv /\ write_sector => IInv'
<1> SUFFICES ASSUME IInv, write_sector PROVE IInv'
  OBVIOUS
<1> USE DEF write_sector, At, Go, Reads
<1>1. NoInterrupt /\ disk = Wrote(done) /\ owed > 0
  BY DEF IInv, DriveInv, DataInv, Quiet, Idle
<1>2. drive = Drive("data", "writing", First + done, owed)
  <2>1. drive = Drive("busy", "write", First, owed) => drive.at = "busy"
    BY DEF Drive
  <2> QED
    BY <1>1, <2>1 DEF IInv, DriveInv
<1>3. /\ task.req \in Request /\ asked = task.req /\ asked # None /\ task.req.kind = "write"
      /\ count \in 1 .. MaxCount /\ task.left \in 1 .. count /\ owed \in Int /\ owed <= task.left
      /\ First + done \in Sector
  BY Transfer, Requests
<1>4. count - task.left + 1 = done + 1
  BY DEF done
<1>5. drive' = [at |-> "taken", op |-> "writing", sect |-> First + done, left |-> owed,
                data |-> task.req.data[done + 1]] /\ NoInterrupt'
  BY <1>1, <1>2, <1>4 DEF Drive, NoInterrupt, count
<1>6. task' = [task EXCEPT !.at = "written?"]
  OBVIOUS
<1>7. task'.at = "written?" /\ task'.req = task.req /\ task'.left = task.left
  BY <1>6 DEF IInv, TaskType
<1>8. First' = First /\ count' = count /\ done' = done /\ owed' = owed /\ Wrote(done)' = Wrote(done)
  BY <1>7 DEF First, owed, done, count, Wrote
<1>9. TypeOK'
  <2>1. drive'.at = "taken" /\ drive'.sect = First + done /\ drive'.left = owed
    BY <1>5
  <2>2. drive'.left \in 0 .. MaxCount
    BY <1>1, <1>3, <2>1, Params
  <2> QED
    BY <1>3, <1>7, <2>1, <2>2 DEF IInv, TypeOK
<1>10. TaskType' /\ InHand' /\ OpenInv'
  BY <1>3, <1>6, <1>7 DEF IInv, TaskType, InHand, OpenInv, Places, Opening, Reading, Writing
<1>11. DriveInv'
  BY <1>1, <1>5, <1>7, <1>8 DEF DriveInv, AtRest
<1>12. DataInv'
  BY <1>3, <1>7, <1>8 DEF DataInv, Writing
<1> QED
  BY <1>9, <1>10, <1>11, <1>12 DEF IInv

(* The controller never asks for the sector: the task comes to an end.     *)
LEMMA PanicKeeps == IInv /\ write_panic => IInv'
<1> SUFFICES ASSUME IInv, write_panic PROVE IInv'
  OBVIOUS
<1> USE DEF write_panic, At, Go, Reads
<1>1. Quiet
  BY DEF IInv, DriveInv, Drive, Quiet
<1>2. task' = [task EXCEPT !.at = "panic"]
  OBVIOUS
<1>3. task'.at = "panic" /\ task'.req = task.req /\ task'.left = task.left
  BY <1>2 DEF IInv, TaskType
<1>4. TypeOK' /\ TaskType'
  BY <1>2, <1>3 DEF IInv, TypeOK, TaskType, Places
<1>5. InHand' /\ OpenInv' /\ DataInv'
  BY <1>3 DEF IInv, InHand, OpenInv, DataInv, Opening, Reading, Writing
<1>6. DriveInv'
  BY <1>1, <1>3 DEF DriveInv, AtRest, Quiet, NoInterrupt
<1> QED
  BY <1>4, <1>5, <1>6 DEF IInv

(* A sector has been written; the last one makes the write complete.       *)
LEMMA WriteNextKeeps == IInv /\ write_next => IInv'
<1> SUFFICES ASSUME IInv, write_next PROVE IInv'
  OBVIOUS
<1> USE DEF write_next, At, Reads
<1>1. NoInterrupt /\ AfterSector
  BY DEF IInv, DriveInv
<1>2. /\ task.req \in Request /\ asked = task.req /\ asked # None /\ task.req.kind = "write"
      /\ count \in 1 .. MaxCount /\ task.left \in 1 .. count /\ done \in 0 .. count - 1 /\ First \in Nat
      /\ owed \in 1 .. task.left
  BY Transfer, Requests
<1>3. done = count - task.left
  BY DEF done
<1> DEFINE at == IF task.left = 1 THEN "reply" ELSE "drq?"
<1>4. task' = [at |-> at, req |-> task.req, left |-> task.left - 1, got |-> task.got]
  <2>1. task = [at |-> task.at, req |-> task.req, left |-> task.left, got |-> task.got]
    BY DEF IInv, TaskType
  <2>2. task' = [task EXCEPT !.at = at, !.left = task.left - 1]
    OBVIOUS
  <2> QED
    BY <2>1, <2>2
<1>5. task'.at = at /\ task'.req = task.req /\ task'.left = task.left - 1
  BY <1>4
<1>6. /\ First' = First /\ count' = count /\ done' = done + 1 /\ First + done + 1 = First + (done + 1)
      /\ owed' = owed - 1
      /\ \A k \in Nat : Wrote(k)' = Wrote(k)
  <2>1. First' = First /\ count' = count
    BY <1>5 DEF First, count
  <2>2. done' = done + 1 /\ First + done + 1 = First + (done + 1)
    BY <1>2, <1>5, <2>1 DEF done
  <2>3. owed' = owed - 1
    <3>1. Served(count) \in Int
      BY <1>2, ServesSome
    <3> QED
      BY <1>2, <2>1, <2>2, <3>1 DEF owed
  <2> QED
    BY <1>5, <2>1, <2>2, <2>3 DEF Wrote
<1>7. NoInterrupt'
  BY <1>1 DEF NoInterrupt
<1>8. task.left - 1 \in 0 .. MaxCount
  BY <1>2, Params
<1>9. TypeOK' /\ TaskType'
  BY <1>4, <1>5, <1>8 DEF IInv, TypeOK, TaskType, Places
<1>10. InHand' /\ OpenInv'
  BY <1>2, <1>5 DEF IInv, InHand, OpenInv, Opening, Reading, Writing
<1>11. CASE task.left = 1
  <2>1. done + 1 = count /\ done + 1 \in Nat
    BY <1>2, <1>3, <1>11
  <2>2. DriveInv'
    BY <1>1, <1>2, <1>5, <1>7, <1>11 DEF DriveInv, AtRest, Places, Quiet, AfterSector
  <2>3. DataInv'
    BY <1>1, <1>2, <1>5, <1>6, <1>11, <2>1 DEF DataInv, Writing, AfterSector
  <2> QED
    BY <1>9, <1>10, <2>2, <2>3 DEF IInv
<1>12. CASE task.left # 1
  <2>1. task.left - 1 \in 1 .. count /\ done + 1 \in Nat
    BY <1>2, <1>12
  <2>2. DriveInv'
    BY <1>1, <1>2, <1>5, <1>6, <1>7, <1>12 DEF DriveInv, AtRest, AfterSector, Quiet
  <2>3. DataInv'
    BY <1>1, <1>2, <1>5, <1>6, <1>12, <2>1 DEF DataInv, Writing, AfterSector
  <2> QED
    BY <1>9, <1>10, <2>2, <2>3 DEF IInv
<1> QED
  BY <1>11, <1>12

(* The answer: what a write has put on the disk is what it promises.       *)
LEMMA ReplyKeeps == IInv /\ wini_reply => IInv'
<1> SUFFICES ASSUME IInv, wini_reply PROVE IInv'
  OBVIOUS
<1> USE DEF wini_reply, At
<1>1. Quiet /\ task.req = asked /\ asked \in Request
  BY DEF IInv, TypeOK, InHand, DriveInv, AtRest, Places
<1>2. task' = [at |-> "receive", req |-> None, left |-> 0, got |-> << >>]
  BY DEF Waiting
<1>3. /\ image \in [Sector -> Value \cup {Table}] /\ disk \in [Sector -> Value \cup {Table}]
      /\ image[0] = Table
  BY DEF IInv, TypeOK, OpenInv
<1>4. image' = disk /\ image'[0] = Table
  <2>1. CASE task.req.kind = "write"
    <3>1. /\ count \in 1 .. MaxCount /\ task.req.pos \in Nat
          /\ disk = Wrote(count)
      BY <1>1, <2>1, Requests DEF count, IInv, DataInv
    <3>2. \A s \in Sector : s - BASE - task.req.pos = s - First
      BY <3>1, Params DEF Sector, First
    <3>3. image' = Wrote(count)
      BY <2>1, <3>2 DEF Written, Wrote, count
    <3>4. 0 - First \notin 0 .. count - 1
      BY <3>1, Params DEF First
    <3>5. Wrote(count)[0] = image[0]
      BY <3>4, Params DEF Wrote
    <3> QED
      BY <1>3, <3>1, <3>3, <3>5
  <2>2. CASE task.req.kind # "write"
    BY <1>3, <2>2 DEF IInv, DataInv, Writing
  <2> QED
    BY <2>1, <2>2
<1>5. TypeOK' /\ TaskType'
  <2>1. << >> \in Seq(Value \cup {Table, Garbage})
    OBVIOUS
  <2>2. 0 \in 0 .. MaxCount
    BY Params
  <2> QED
    BY <1>2, <1>3, <1>4, <2>1, <2>2 DEF IInv, TypeOK, TaskType, Places
<1>6. InHand' /\ OpenInv'
  BY <1>2, <1>4 DEF IInv, InHand, OpenInv, None
<1>7. DriveInv' /\ DataInv'
  BY <1>1, <1>2, <1>4 DEF DriveInv, DataInv, Quiet, NoInterrupt, AtRest, Places, Writing
<1> QED
  BY <1>5, <1>6, <1>7 DEF IInv

-----------------------------------------------------------------------------
(* The invariant is inductive.                                             *)
LEMMA NextIInv == ASSUME ~ LATCH PROVE IInv /\ [Next]_vars => IInv'
<1> SUFFICES ASSUME IInv, [Next]_vars PROVE IInv'
  OBVIOUS
<1>1. CASE DriveStep
  BY <1>1, DriveReadKeeps, DriveWriteKeeps, DriveWrittenKeeps DEF DriveStep
<1>2. CASE wini_handler
  BY <1>2, HandlerKeeps
<1>3. CASE TaskStep
  BY <1>3, ReceiveKeeps, IdentifyKeeps, IdentifyWaitKeeps, OpenKeeps, GetTableKeeps, TableWaitKeeps,
     PartitionKeeps, OtherKeeps, ReadWriteKeeps, ReadWaitKeeps, ReadSectorKeeps, WriteSectorKeeps,
     PanicKeeps, WriteWaitKeeps, WriteNextKeeps, ReplyKeeps DEF TaskStep
<1>4. CASE \E req \in Request : fs_call(req)
  BY <1>4, CallKeeps
<1>5. CASE UNCHANGED vars
  BY <1>5 DEF vars, IInv, TypeOK, TaskType, InHand, OpenInv, DriveInv, DataInv, Quiet, NoInterrupt,
              Pending, Ready, Announced, AfterSector, First, owed, done, count, Got, Wrote
<1> QED
  BY <1>1, <1>2, <1>3, <1>4, <1>5 DEF Next

(* The invariant holds in every state.                                     *)
LEMMA Invariance == ASSUME ~ LATCH PROVE Spec => []IInv
<1> QED
  BY InitIInv, NextIInv, PTL DEF Spec

(* What is read is what the disk holds, and when the task waits again the  *)
(* disk holds what the answers have promised, whatever the requests were:  *)
(* wini_do_readwrite and the controller agree on the sector at every turn. *)
THEOREM DiskTransfersRight == ASSUME ~ LATCH PROVE Spec => []TransfersRight
<1>1. IInv => TransfersRight
  <2> SUFFICES ASSUME IInv PROVE ReadsRight /\ WritesDone
    BY DEF IInv, TransfersRight
  <2>1. WritesDone
    BY DEF IInv, DataInv, Writing, WritesDone
  <2>2. ASSUME task.at = "reply", task.req.kind = "read"
        PROVE  task.got = [i \in 1 .. task.req.count |-> disk[BASE + task.req.pos + i - 1]]
    BY <2>2 DEF IInv, DataInv, Got, First, count
  <2> QED
    BY <2>1, <2>2 DEF ReadsRight
<1> QED
  BY <1>1, Invariance, PTL

(* When a command is given the controller is idle and no interrupt of an   *)
(* earlier command is on its way, so that none is taken for this one's.    *)
THEOREM NoInterruptLeftOver == ASSUME ~ LATCH PROVE Spec => []NothingLeftOver
<1>1. IInv => NothingLeftOver
  BY DEF IInv, DriveInv, AtRest, Places, Quiet, NoInterrupt, Idle, NothingLeftOver
<1> QED
  BY <1>1, Invariance, PTL
=============================================================================
